---- MODULE Spec2Model ----
(***************************************************************************)
(* Calm-route pipeline of the 2GIS backend: CalmRouteService, the          *)
(* condition-layer provider (MapService / MockDataGenerator /              *)
(* PolygonLoader) and the routing provider client (GisService).            *)
(*                                                                         *)
(* Conventions.  Coordinates are integers in units of 0.001 degree.  A     *)
(* point of a ring or of a route is <<lon, lat>>.  Bounding boxes are kept *)
(* in tenths of that unit (the 10% widening is then exact).  Decibels,     *)
(* crowd levels and calm scores of routes are kept in tenths.  A Python    *)
(* Optional is <<>> (None) or <<v>>.  A Python dict returned by the        *)
(* routing provider is [nonempty, result].                                 *)
(***************************************************************************)
EXTENDS Integers, Sequences, FiniteSets, TLC

VARIABLES
    request,            \* CalmRouteRequest of the request being served
    pc,                 \* position of build_calm_route
    base_route,         \* result of the first get_route call
    bbox,               \* <<lat_min, lon_min, lat_max, lon_max>> in tenths
    all_layers,         \* features per layer type, as get_all_layers returned them
    problematic_polygons,
    merged_polygons,
    exclude_polygons,
    calm_route,         \* result of the second get_route call
    result,             \* what build_calm_route returned or raised
    http,               \* what calculate_calm_route produced
    calls,              \* payloads posted to the routing provider, in order
    polygons_by_layer,  \* PolygonLoader.polygons_by_layer
    loader_gis_service, \* PolygonLoader.gis_service is set
    USE_REAL_DATA,      \* app.const.USE_REAL_DATA
    vf_args,            \* arguments of a _violates_filters evaluation
    vf_ret,             \* its return value (<<>> before the call)
    attempts,           \* outcome kinds of the HTTP posts to the routing provider
    layer_fetches,      \* number of get_all_layers calls
    fn_args,            \* arguments of the function evaluated on its own
    fn_ret,             \* its return value (<<>> before the call)
    storage,            \* PlacesStorage: reviews_data, accessibility_data, file writes
    places_calls,       \* queries sent to the places provider, in order
    tasks               \* event-loop tasks of the places endpoints

vars == <<request, pc, base_route, bbox, all_layers, problematic_polygons,
          merged_polygons, exclude_polygons, calm_route, result, http, calls,
          polygons_by_layer, loader_gis_service, USE_REAL_DATA, vf_args, vf_ret,
          attempts, layer_fetches, fn_args, fn_ret,
          storage, places_calls, tasks>>

----------------------------------------------------------------------------
(* Bounds of the model *)

\* number of pairwise disjoint noise polygons of the large dataset
NumDisjoint == 21
\* largest number of route alternatives the provider answers with
MaxRouteItems == 4

----------------------------------------------------------------------------
(* Python values *)

None == <<>>
Some(v) == <<v>>

PyNone == [t |-> "none", v |-> 0]
PyBool(b) == [t |-> "bool", v |-> IF b THEN 1 ELSE 0]
PyInt(n) == [t |-> "int", v |-> n]
\* an Optional[int] attribute as a Python value
PyOpt(o) == IF o = None THEN PyNone ELSE PyInt(o[1])
\* truth value testing
Truthy(x) == x.t # "none" /\ x.v # 0
\* x and y
PyAnd(x, y) == IF Truthy(x) THEN y ELSE x

Min(a, b) == IF a <= b THEN a ELSE b
Max(a, b) == IF a >= b THEN a ELSE b

RECURSIVE SeqMin(_)
SeqMin(s) == IF Len(s) = 1 THEN s[1] ELSE Min(s[1], SeqMin(Tail(s)))
RECURSIVE SeqMax(_)
SeqMax(s) == IF Len(s) = 1 THEN s[1] ELSE Max(s[1], SeqMax(Tail(s)))

\* s[:n]
Take(s, n) == SubSeq(s, 1, Min(n, Len(s)))

RECURSIVE Flatten(_)
Flatten(ss) == IF ss = <<>> THEN <<>> ELSE ss[1] \o Flatten(Tail(ss))

PlaceIds == {"70001", "70002"}

\* PlacesStorage of a fresh process: no reviews, no accessibility data
StorageAtStart ==
    [reviews_data |-> [place_id \in PlaceIds |-> <<>>],
     accessibility_data |-> [place_id \in PlaceIds |-> <<>>],
     writes |-> 0]

----------------------------------------------------------------------------
(* Routing provider client *)

EmptyDict == [nonempty |-> FALSE, result |-> <<>>]

BuildPayload(start, end, profile, excl) ==
    [points |-> <<[lat |-> start[1], lon |-> start[2]],
                  [lat |-> end[1], lon |-> end[2]]>>,
     transport |-> profile,
     exclude |-> excl]

\* outcome.kind: "ok" (status 200, body outcome.data), "status" (other status),
\* "timeout" (httpx.TimeoutException), "error" (any other exception)
\* variant: the body of the answer is returned whatever its status
GetRoute_AnyStatus(outcome) == outcome.data

GetRoute(outcome) ==
    IF outcome.kind = "ok" THEN outcome.data ELSE EmptyDict

create_exclude_polygon(polygon_coords) ==
    [severity |-> "hard",
     type |-> "polyline",
     points |-> [i \in 1..Len(polygon_coords) |->
                   [lon |-> polygon_coords[i][1], lat |-> polygon_coords[i][2]]]]

----------------------------------------------------------------------------
(* Route geometry: a selection is [tag, nums]; nums is the flat list of the *)
(* numbers of "LINESTRING(lon lat, lon lat, ...)" in textual order.         *)

IsLineString(sel) == sel.tag = "LINESTRING"

\* every "lon lat" pair splits into exactly two numbers
Parsable(sel) == Len(sel.nums) > 0 /\ Len(sel.nums) % 2 = 0

\* [lon, lat] pairs of one LINESTRING, in order
ParseLineString(sel) ==
    [i \in 1..(Len(sel.nums) \div 2) |-> <<sel.nums[2 * i - 1], sel.nums[2 * i]>>]

\* selections of one route item, in maneuver order
ItemSelections(route_item) ==
    SelectSeq(Flatten(route_item.maneuvers), IsLineString)

ItemRaises(route_item) ==
    \E i \in 1..Len(ItemSelections(route_item)) :
        ~Parsable(ItemSelections(route_item)[i])

ItemCoordinates(route_item) ==
    LET sels == ItemSelections(route_item)
    IN Flatten([i \in 1..Len(sels) |-> ParseLineString(sels[i])])

\* the walk of _get_route_bbox raises ValueError on an unparsable pair
RouteBboxRaises(route) ==
    \E i \in 1..Len(route.result) : ItemRaises(route.result[i])

FallbackBbox == <<557500, 376100, 557600, 376300>>

\* variant: the margin is taken off the box instead of added to it
get_route_bbox_Narrowed(route) ==
    LET pts == Flatten([i \in 1..Len(route.result) |-> ItemCoordinates(route.result[i])])
        all_lons == [i \in 1..Len(pts) |-> pts[i][1]]
        all_lats == [i \in 1..Len(pts) |-> pts[i][2]]
    IN IF pts = <<>> THEN FallbackBbox
       ELSE LET lat_min == SeqMin(all_lats)
                lat_max == SeqMax(all_lats)
                lon_min == SeqMin(all_lons)
                lon_max == SeqMax(all_lons)
                lat_range == lat_max - lat_min
                lon_range == lon_max - lon_min
            IN <<10 * lat_min + lat_range, 10 * lon_min + lon_range,
                 10 * lat_max - lat_range, 10 * lon_max - lon_range>>

get_route_bbox(route) ==
    LET pts == Flatten([i \in 1..Len(route.result) |-> ItemCoordinates(route.result[i])])
        all_lons == [i \in 1..Len(pts) |-> pts[i][1]]
        all_lats == [i \in 1..Len(pts) |-> pts[i][2]]
    IN IF pts = <<>> THEN FallbackBbox
       ELSE LET lat_min == SeqMin(all_lats)
                lat_max == SeqMax(all_lats)
                lon_min == SeqMin(all_lons)
                lon_max == SeqMax(all_lons)
                lat_range == lat_max - lat_min
                lon_range == lon_max - lon_min
            IN <<10 * lat_min - lat_range, 10 * lon_min - lon_range,
                 10 * lat_max + lat_range, 10 * lon_max + lon_range>>

----------------------------------------------------------------------------
(* Condition layer provider *)

LayerOrder == <<"noise", "crowd", "light", "puddles">>
LayerTypes == {"noise", "crowd", "light", "puddles"}

\* ring of the axis-aligned rectangle [lon0, lon1] x [lat0, lat1], closed
RectRing(lon0, lat0, lon1, lat1) ==
    <<<<lon0, lat0>>, <<lon1, lat0>>, <<lon1, lat1>>, <<lon0, lat1>>, <<lon0, lat0>>>>

\* variant: the first point is appended to every ring
CloseRing_AlwaysAppend(coords) == Append(coords, coords[1])

\* s if first = last, else s with its first point appended
CloseRing(coords) ==
    IF coords[1] # coords[Len(coords)] THEN Append(coords, coords[1]) ELSE coords

has_data_for_layer(layer_type) == Len(polygons_by_layer[layer_type]) > 0

\* variant: a ring that only touches the box does not intersect it
intersects_bbox_Strict(coords, b) ==
    LET poly_lons == [i \in 1..Len(coords) |-> coords[i][1]]
        poly_lats == [i \in 1..Len(coords) |-> coords[i][2]]
    IN ~(\/ 10 * SeqMax(poly_lons) <= b[2]
         \/ 10 * SeqMin(poly_lons) >= b[4]
         \/ 10 * SeqMax(poly_lats) <= b[1]
         \/ 10 * SeqMin(poly_lats) >= b[3])

intersects_bbox(coords, b) ==
    LET poly_lons == [i \in 1..Len(coords) |-> coords[i][1]]
        poly_lats == [i \in 1..Len(coords) |-> coords[i][2]]
    IN ~(\/ 10 * SeqMax(poly_lons) < b[2]
         \/ 10 * SeqMin(poly_lons) > b[4]
         \/ 10 * SeqMax(poly_lats) < b[1]
         \/ 10 * SeqMin(poly_lats) > b[3])

find_polygons_in_bbox(layer_type, b) ==
    SelectSeq(polygons_by_layer[layer_type],
              LAMBDA polygon : intersects_bbox(polygon.coordinates, b))

\* half sizes of the box around a shopping centre (about 100 m)
RadiusLon == 2
RadiusLat == 1

\* The 16-gon around the point is represented by the ring of its bounding
\* rectangle (the trigonometry is not representable on the integer grid).
create_polygon_around_point(lat, lon) ==
    RectRing(lon - RadiusLon, lat - RadiusLat, lon + RadiusLon, lat + RadiusLat)

\* lookup.kind: "ok" (centres found, possibly none), "fail" (timeout, error or
\* status, get_shopping_centers answers []), "raise" (a centre without a
\* usable point makes get_light_polygons raise)
get_light_polygons(lookup) ==
    IF lookup.kind # "ok" THEN <<>>
    ELSE [i \in 1..Len(lookup.centers) |->
            [id |-> "light_tc_" \o lookup.centers[i].id,
             coordinates |-> create_polygon_around_point(lookup.centers[i].lat,
                                                         lookup.centers[i].lon),
             metrics |-> [noise_db |-> 65, crowd_level |-> 4,
                          light_lux |-> 180, puddles |-> FALSE]]]

\* variant: without an answer from the live lookup the light layer is empty
find_polygons_in_bbox_async_NoFallback(layer_type, b, lookup) ==
    IF layer_type = "light" /\ loader_gis_service /\ USE_REAL_DATA
    THEN IF lookup.kind # "raise" THEN get_light_polygons(lookup) ELSE <<>>
    ELSE find_polygons_in_bbox(layer_type, b)

find_polygons_in_bbox_async(layer_type, b, lookup) ==
    IF /\ layer_type = "light" /\ loader_gis_service /\ USE_REAL_DATA
       /\ lookup.kind # "raise"
       /\ get_light_polygons(lookup) # <<>>
    THEN get_light_polygons(lookup)
    ELSE find_polygons_in_bbox(layer_type, b)

convert_to_segments(polygons) ==
    [i \in 1..Len(polygons) |->
        [id |-> polygons[i].id,
         geometry |-> [type |-> "Polygon",
                       coordinates |-> <<CloseRing(polygons[i].coordinates)>>],
         metrics |-> polygons[i].metrics]]

\* variant: an open ring is closed in the loaded polygon itself
LoadedAfterConvert_InPlace(poly) ==
    [poly EXCEPT !.coordinates = CloseRing(@)]

\* polygon_loader.py:190-210: the loaded polygon after convert_to_segments has
\* read it. Line 194 binds the local name to a new list (coords + [coords[0]]),
\* the metrics dict is only passed on; nothing is written into the polygon.
LoadedAfterConvert(poly) == poly

\* the loaded datasets after one fetch of the four layers for box b: every
\* static polygon found in the box has gone through convert_to_segments (the
\* polygons of the live light lookup are built per call and are not loaded)
LoadedAfterLayers(b, lookup) ==
    [layer_type \in LayerTypes |->
        IF /\ layer_type = "light"
           /\ find_polygons_in_bbox_async(layer_type, b, lookup)
                # find_polygons_in_bbox(layer_type, b)
        THEN polygons_by_layer[layer_type]
        ELSE [i \in 1..Len(polygons_by_layer[layer_type]) |->
                IF intersects_bbox(polygons_by_layer[layer_type][i].coordinates, b)
                THEN LoadedAfterConvert(polygons_by_layer[layer_type][i])
                ELSE polygons_by_layer[layer_type][i]]]

SegmentCap == 200

\* variant: every polygon found is converted and returned
generate_segments_in_bbox_Uncapped(b, layer_type) ==
    IF has_data_for_layer(layer_type) /\ find_polygons_in_bbox(layer_type, b) # <<>>
    THEN convert_to_segments(find_polygons_in_bbox(layer_type, b))
    ELSE <<>>

generate_segments_in_bbox(b, layer_type) ==
    IF has_data_for_layer(layer_type) /\ find_polygons_in_bbox(layer_type, b) # <<>>
    THEN Take(convert_to_segments(find_polygons_in_bbox(layer_type, b)), SegmentCap)
    ELSE <<>>

generate_segments_in_bbox_async(b, layer_type, lookup) ==
    IF layer_type = "light"
    THEN IF find_polygons_in_bbox_async(layer_type, b, lookup) # <<>>
         THEN Take(convert_to_segments(find_polygons_in_bbox_async(layer_type, b, lookup)),
                   SegmentCap)
         ELSE <<>>
    ELSE generate_segments_in_bbox(b, layer_type)

\* value of a segment for its layer (time is None in the route builder)
get_layer_metrics(segment, layer_type) ==
    CASE layer_type = "noise" -> segment.metrics.noise_db
      [] layer_type = "crowd" -> segment.metrics.crowd_level
      [] layer_type = "light" -> segment.metrics.light_lux
      [] layer_type = "puddles" -> IF segment.metrics.puddles THEN 1 ELSE 0

Features(segments, layer_type) ==
    [i \in 1..Len(segments) |->
        [segment_id |-> segments[i].id,
         geometry |-> segments[i].geometry,
         value |-> get_layer_metrics(segments[i], layer_type)]]

get_all_layers(b, lookup) ==
    [layer_type \in LayerTypes |->
        Features(IF layer_type = "light"
                 THEN generate_segments_in_bbox_async(b, layer_type, lookup)
                 ELSE generate_segments_in_bbox(b, layer_type),
                 layer_type)]

----------------------------------------------------------------------------
(* Violation detector *)

\* metrics dict built for a feature of a layer (lines 98-103)
FeatureMetrics(feature, layer_type) ==
    [noise_db |-> IF layer_type = "noise" THEN feature.value ELSE 0,
     crowd_level |-> IF layer_type = "crowd" THEN feature.value ELSE 0,
     light_lux |-> IF layer_type = "light" THEN feature.value ELSE 0,
     puddles |-> IF layer_type = "puddles" THEN 2 * feature.value > 1 ELSE FALSE]

\* variant: an unset noise threshold is read as 0
violates_filters_NoneAsZero(metrics, avoid, layer_type) ==
    CASE layer_type = "noise" ->
            PyBool(metrics.noise_db > (IF avoid.noise_above_db = None THEN 0
                                       ELSE avoid.noise_above_db[1]))
      [] layer_type = "crowd" ->
            IF Truthy(PyOpt(avoid.crowd_level_above))
            THEN PyBool(metrics.crowd_level > avoid.crowd_level_above[1])
            ELSE PyOpt(avoid.crowd_level_above)
      [] layer_type = "puddles" ->
            PyAnd(PyBool(avoid.puddles), PyBool(metrics.puddles))
      [] layer_type = "light" ->
            IF Truthy(PyOpt(avoid.light_below_lux))
            THEN PyBool(metrics.light_lux < avoid.light_below_lux[1])
            ELSE PyOpt(avoid.light_below_lux)
      [] OTHER -> PyBool(FALSE)

\* the Python value the method returns: `a and b` yields a when a is falsy
violates_filters(metrics, avoid, layer_type) ==
    CASE layer_type = "noise" ->
            IF Truthy(PyOpt(avoid.noise_above_db))
            THEN PyBool(metrics.noise_db > avoid.noise_above_db[1])
            ELSE PyOpt(avoid.noise_above_db)
      [] layer_type = "crowd" ->
            IF Truthy(PyOpt(avoid.crowd_level_above))
            THEN PyBool(metrics.crowd_level > avoid.crowd_level_above[1])
            ELSE PyOpt(avoid.crowd_level_above)
      [] layer_type = "puddles" ->
            PyAnd(PyBool(avoid.puddles), PyBool(metrics.puddles))
      [] layer_type = "light" ->
            IF Truthy(PyOpt(avoid.light_below_lux))
            THEN PyBool(metrics.light_lux < avoid.light_below_lux[1])
            ELSE PyOpt(avoid.light_below_lux)
      [] OTHER -> PyBool(FALSE)

\* the test that guards the append: `if True`
CollectCondition(metrics, avoid, layer_type) == TRUE

LayerProblems(features, avoid, layer_type) ==
    LET kept == SelectSeq(features,
                    LAMBDA feature :
                        CollectCondition(FeatureMetrics(feature, layer_type),
                                         avoid, layer_type))
    IN [i \in 1..Len(kept) |->
          [id |-> kept[i].segment_id,
           type |-> layer_type,
           coordinates |-> kept[i].geometry.coordinates[1],
           reason |-> ""]]

find_problematic_polygons(layers, avoid) ==
    Flatten([k \in 1..Len(LayerOrder) |->
                LayerProblems(layers[LayerOrder[k]], avoid, LayerOrder[k])])

----------------------------------------------------------------------------
(* Polygon merger.  Rings of the condition layers are axis-aligned          *)
(* rectangles; the geometry library's predicates are given for them.        *)

LonMin(coords) == SeqMin([i \in 1..Len(coords) |-> coords[i][1]])
LonMax(coords) == SeqMax([i \in 1..Len(coords) |-> coords[i][1]])
LatMin(coords) == SeqMin([i \in 1..Len(coords) |-> coords[i][2]])
LatMax(coords) == SeqMax([i \in 1..Len(coords) |-> coords[i][2]])

\* shapely Polygon built from a ring: the ring and its bounds
Polygon(coords) ==
    [exterior |-> coords,
     bounds |-> <<LonMin(coords), LatMin(coords), LonMax(coords), LatMax(coords)>>]

\* Polygon.intersects: the closed rectangles share at least one point
ShapelyIntersects(a, b) ==
    /\ a.bounds[1] <= b.bounds[3] /\ b.bounds[1] <= a.bounds[3]
    /\ a.bounds[2] <= b.bounds[4] /\ b.bounds[2] <= a.bounds[4]

\* the rectangles share more than a corner point
Joined(a, b) ==
    /\ ShapelyIntersects(a, b)
    /\ \/ Min(a.bounds[3], b.bounds[3]) > Max(a.bounds[1], b.bounds[1])
       \/ Min(a.bounds[4], b.bounds[4]) > Max(a.bounds[2], b.bounds[2])

\* indices reachable from the indices in `seen` over Joined
RECURSIVE JoinedClosure(_, _)
JoinedClosure(polys, seen) ==
    LET more == {j \in 1..Len(polys) :
                    \E i \in seen : Joined(polys[i], polys[j])}
    IN IF more \subseteq seen THEN seen ELSE JoinedClosure(polys, seen \cup more)

\* the union of the polygons is one Polygon (it has an exterior), not a
\* MultiPolygon
UnionHasExterior(polys) == JoinedClosure(polys, {1}) = 1..Len(polys)

\* exterior.coords of the union: a closed ring; for rectangles of one
\* latitude band the union is the rectangle spanning them
UnionExteriorCoords(polys) ==
    RectRing(SeqMin([k \in 1..Len(polys) |-> polys[k].bounds[1]]),
             SeqMin([k \in 1..Len(polys) |-> polys[k].bounds[2]]),
             SeqMax([k \in 1..Len(polys) |-> polys[k].bounds[3]]),
             SeqMax([k \in 1..Len(polys) |-> polys[k].bounds[4]]))

\* coords passes the format tests of lines 135 and 137
WellFormed(coords) == Len(coords) >= 3 /\ Len(coords[1]) = 2

\* Polygon(coords) raises on a point that is not a pair
PolygonRaises(coords) == \E i \in 1..Len(coords) : Len(coords[i]) # 2

ShapelyPolygons(polygons) ==
    LET idx == SelectSeq([i \in 1..Len(polygons) |-> i],
                         LAMBDA i : /\ WellFormed(polygons[i].coordinates)
                                    /\ ~PolygonRaises(polygons[i].coordinates))
    IN [k \in 1..Len(idx) |->
          [index |-> idx[k] - 1,
           polygon |-> Polygon(CloseRing(polygons[idx[k]].coordinates)),
           original |-> polygons[idx[k]]]]

\* indices outside `used` reachable from `seen` over intersections
RECURSIVE IntersectClosure(_, _, _)
IntersectClosure(sp, seen, used) ==
    LET more == {j \in 1..Len(sp) :
                    /\ j \notin used
                    /\ \E i \in seen : ShapelyIntersects(sp[i].polygon, sp[j].polygon)}
    IN IF more \subseteq seen THEN seen ELSE IntersectClosure(sp, seen \cup more, used)

\* variant: a polygon joins the group when it intersects any member of it
GroupOf_Transitive(sp, i, used) ==
    <<i>> \o SelectSeq([j \in 1..Len(sp) |-> j],
                       LAMBDA j : /\ j \notin used
                                  /\ j # i
                                  /\ j \in IntersectClosure(sp, {i}, used))

\* variant: no polygon ever joins a seed
GroupOf_SeedOnly(sp, i, used) == <<i>>

\* variant: only the first polygon that intersects the seed joins its group
GroupOf_FirstOnly(sp, i, used) ==
    <<i>> \o Take(SelectSeq([j \in 1..Len(sp) |-> j],
                            LAMBDA j : /\ j \notin used
                                       /\ j # i
                                       /\ ShapelyIntersects(sp[i].polygon,
                                                            sp[j].polygon)),
                  1)

\* members of the group seeded by i: i, then every j not used so far whose
\* polygon intersects the seed's, in index order
GroupOf(sp, i, used) ==
    <<i>> \o SelectSeq([j \in 1..Len(sp) |-> j],
                       LAMBDA j : /\ j \notin used
                                  /\ j # i
                                  /\ ShapelyIntersects(sp[i].polygon, sp[j].polygon))

RECURSIVE GroupLoop(_, _, _, _)
GroupLoop(sp, i, used, groups) ==
    IF i > Len(sp) THEN groups
    ELSE IF i \in used THEN GroupLoop(sp, i + 1, used, groups)
    ELSE LET group == GroupOf(sp, i, used)
         IN GroupLoop(sp, i + 1,
                      used \cup {group[k] : k \in 1..Len(group)},
                      Append(groups, group))

\* groups of indices into sp, in the order the groups are started
Groups(sp) == GroupLoop(sp, 1, {}, <<>>)

\* ring of a merged polygon from the exterior coordinates
NormalizeRing(ext) ==
    LET stripped == IF ext[1] = ext[Len(ext)] THEN SubSeq(ext, 1, Len(ext) - 1) ELSE ext
    IN IF stripped[1] # stripped[Len(stripped)]
       THEN Append(stripped, stripped[1])
       ELSE stripped

\* variant: a polygon alone in its group is emitted with the closed ring of
\* its geometry object
MergeGroup_ClosedSingleton(sp, group, merged) ==
    IF Len(group) = 1
    THEN [sp[group[1]].original EXCEPT !.coordinates = sp[group[1]].polygon.exterior]
    ELSE LET polys == [k \in 1..Len(group) |-> sp[group[k]].polygon]
         IN IF UnionHasExterior(polys)
            THEN [id |-> "merged_" \o ToString(Len(merged)),
                  type |-> "merged",
                  coordinates |-> NormalizeRing(UnionExteriorCoords(polys)),
                  reason |-> "merged " \o ToString(Len(group)) \o " polygons"]
            ELSE sp[group[1]].original

\* variant: a group of several polygons is always emitted as a merged polygon
MergeGroup_AlwaysMerged(sp, group, merged) ==
    IF Len(group) = 1 THEN sp[group[1]].original
    ELSE LET polys == [k \in 1..Len(group) |-> sp[group[k]].polygon]
         IN [id |-> "merged_" \o ToString(Len(merged)),
             type |-> "merged",
             coordinates |-> NormalizeRing(UnionExteriorCoords(polys)),
             reason |-> "merged " \o ToString(Len(group)) \o " polygons"]

MergeGroup(sp, group, merged) ==
    IF Len(group) = 1 THEN sp[group[1]].original
    ELSE LET polys == [k \in 1..Len(group) |-> sp[group[k]].polygon]
         IN IF UnionHasExterior(polys)
            THEN [id |-> "merged_" \o ToString(Len(merged)),
                  type |-> "merged",
                  coordinates |-> NormalizeRing(UnionExteriorCoords(polys)),
                  reason |-> "merged " \o ToString(Len(group)) \o " polygons"]
            ELSE sp[group[1]].original

RECURSIVE MergeLoop(_, _, _)
MergeLoop(sp, groups, merged) ==
    IF groups = <<>> THEN merged
    ELSE MergeLoop(sp, Tail(groups), Append(merged, MergeGroup(sp, groups[1], merged)))

merge_intersecting_polygons(polygons) ==
    LET shapely_polygons == ShapelyPolygons(polygons)
    IN IF polygons = <<>> THEN <<>>
       ELSE IF shapely_polygons = <<>> THEN polygons
       ELSE MergeLoop(shapely_polygons, Groups(shapely_polygons), <<>>)

----------------------------------------------------------------------------
(* Response assembly.  Display strings are ASCII renderings of the Russian  *)
(* literals of the source.                                                   *)

DefaultGeometry == <<<<37617, 55755>>, <<37625, 55760>>>>

extract_route_geometry(route_item) ==
    [type |-> "LineString",
     coordinates |-> IF ItemCoordinates(route_item) = <<>>
                     THEN DefaultGeometry
                     ELSE ItemCoordinates(route_item)]

\* draw = <<avg_noise_db, avg_crowd>> in tenths: the two random.uniform
\* values after round(_, 1)
extract_route_metrics(route_item, draw) ==
    [distance_m |-> IF route_item.total_distance = None THEN 1000
                    ELSE route_item.total_distance[1],
     duration_min |-> (IF route_item.total_duration = None THEN 720
                       ELSE route_item.total_duration[1]) \div 60,
     avg_noise_db |-> draw[1],
     avg_crowd |-> draw[2]]

\* round(n / d) to the nearest integer, ties to even (d > 0)
RoundDiv(n, d) ==
    LET q == n \div d
        r == n % d
    IN IF 2 * r < d THEN q
       ELSE IF 2 * r > d THEN q + 1
       ELSE IF q % 2 = 0 THEN q ELSE q + 1

\* calm score in tenths; the weighted sum is kept in fiftieths
calculate_calm_score(metrics) ==
    LET noise_score50 == Max(0, 900 - metrics.avg_noise_db)
        crowd_score4 == 50 - metrics.avg_crowd
        calm_score50 == 6 * noise_score50 + 50 * crowd_score4
    IN Min(100, Max(0, RoundDiv(calm_score50, 5)))

generate_explanations(avoid) ==
    (IF Truthy(PyOpt(avoid.noise_above_db))
     THEN <<[segment |-> "whole route",
             reason |-> "avoid noise above " \o ToString(avoid.noise_above_db[1])]>>
     ELSE <<>>)
    \o (IF Truthy(PyOpt(avoid.crowd_level_above))
        THEN <<[segment |-> "whole route",
                reason |-> "avoid crowd above " \o ToString(avoid.crowd_level_above[1])]>>
        ELSE <<>>)
    \o (IF avoid.puddles
        THEN <<[segment |-> "whole route", reason |-> "avoid puddles"]>>
        ELSE <<>>)
    \o (IF Truthy(PyOpt(avoid.light_below_lux))
        THEN <<[segment |-> "whole route",
                reason |-> "avoid light below " \o ToString(avoid.light_below_lux[1])]>>
        ELSE <<>>)

get_route_name(route_item, index) ==
    IF route_item.algorithm = "shortest" THEN "shortest route"
    ELSE IF route_item.algorithm = "fastest" THEN "fastest route"
    ELSE "route " \o ToString(index + 1)

\* variant: the straight line's points written as [lat, lon]
create_fallback_route_LatLon(req) ==
    [routes |->
        <<[id |-> "fallback_route",
           name |-> "base route",
           geometry |-> [type |-> "LineString",
                         coordinates |-> <<<<req.start.lat, req.start.lon>>,
                                           <<req.end.lat, req.end.lon>>>>],
           metrics |-> [distance_m |-> 1200, duration_min |-> 15,
                        avg_noise_db |-> 700, avg_crowd |-> 30],
           calm_score |-> 60,
           explanations |-> <<[segment |-> "straight route",
                               reason |-> "2GIS API unavailable"]>>]>>]

create_fallback_route(req) ==
    [routes |->
        <<[id |-> "fallback_route",
           name |-> "base route",
           geometry |-> [type |-> "LineString",
                         coordinates |-> <<<<req.start.lon, req.start.lat>>,
                                           <<req.end.lon, req.end.lat>>>>],
           metrics |-> [distance_m |-> 1200, duration_min |-> 15,
                        avg_noise_db |-> 700, avg_crowd |-> 30],
           calm_score |-> 60,
           explanations |-> <<[segment |-> "straight route",
                               reason |-> "2GIS API unavailable"]>>]>>]

RouteCap == 3

\* conversion raises ValueError when one of the converted items does not parse
ConvertRaises(route) ==
    \E i \in 1..Len(Take(route.result, RouteCap)) : ItemRaises(route.result[i])

\* variant: no more routes are converted than the request asked for
convert_route_to_response_CapByRequest(route, req, draws) ==
    IF route.result = <<>> THEN create_fallback_route(req)
    ELSE [routes |->
            [i \in 1..Len(Take(route.result, Min(RouteCap, req.alternatives))) |->
                [id |-> IF route.result[i].id = None
                        THEN "route_" \o ToString(i)
                        ELSE route.result[i].id[1],
                 name |-> get_route_name(route.result[i], i - 1),
                 geometry |-> extract_route_geometry(route.result[i]),
                 metrics |-> extract_route_metrics(route.result[i], draws[i]),
                 calm_score |->
                    calculate_calm_score(extract_route_metrics(route.result[i], draws[i])),
                 explanations |-> generate_explanations(req.profile.avoid)]]]

\* draws[i] is the random draw of the i-th converted item
convert_route_to_response(route, req, draws) ==
    IF route.result = <<>> THEN create_fallback_route(req)
    ELSE [routes |->
            [i \in 1..Len(Take(route.result, RouteCap)) |->
                [id |-> IF route.result[i].id = None
                        THEN "route_" \o ToString(i)
                        ELSE route.result[i].id[1],
                 name |-> get_route_name(route.result[i], i - 1),
                 geometry |-> extract_route_geometry(route.result[i]),
                 metrics |-> extract_route_metrics(route.result[i], draws[i]),
                 calm_score |->
                    calculate_calm_score(extract_route_metrics(route.result[i], draws[i])),
                 explanations |-> generate_explanations(req.profile.avoid)]]]

----------------------------------------------------------------------------
(* Inputs: requests, provider answers, condition-layer datasets *)

Poly(id, lon0, lon1, lat0, lat1, closed, noise, crowd, lux, wet) ==
    [id |-> id,
     coordinates |-> IF closed THEN RectRing(lon0, lat0, lon1, lat1)
                     ELSE SubSeq(RectRing(lon0, lat0, lon1, lat1), 1, 4),
     metrics |-> [noise_db |-> noise, crowd_level |-> crowd,
                  light_lux |-> lux, puddles |-> wet]]

DatasetEmpty == [layer_type \in LayerTypes |-> <<>>]

\* three loud noise polygons, the first two overlapping
DatasetB ==
    [DatasetEmpty EXCEPT
        !["noise"] = <<Poly("n1", 37610, 37620, 55755, 55757, TRUE, 80, 2, 100, FALSE),
                       Poly("n2", 37615, 37625, 55755, 55757, TRUE, 82, 2, 100, FALSE),
                       Poly("n3", 37640, 37650, 55755, 55757, FALSE, 78, 2, 100, FALSE)>>]

\* polygons on both sides of the default thresholds, one far from any route
DatasetMixed ==
    [noise |-> <<Poly("quiet", 37610, 37620, 55755, 55757, TRUE, 60, 2, 100, FALSE),
                 Poly("loud", 37660, 37670, 55755, 55757, FALSE, 80, 2, 100, FALSE),
                 Poly("far", 37900, 37910, 55755, 55757, TRUE, 90, 2, 100, FALSE)>>,
     crowd |-> <<Poly("calm", 37630, 37635, 55755, 55757, TRUE, 60, 3, 100, FALSE)>>,
     light |-> <<Poly("dark", 37640, 37645, 55755, 55757, TRUE, 60, 2, 30, FALSE)>>,
     puddles |-> <<Poly("dry", 37650, 37655, 55755, 55757, TRUE, 60, 2, 100, FALSE),
                   Poly("wet", 37622, 37628, 55755, 55757, TRUE, 60, 2, 100, TRUE)>>]

\* NumDisjoint pairwise disjoint loud noise polygons
DatasetMany ==
    [DatasetEmpty EXCEPT
        !["noise"] = [k \in 1..NumDisjoint |->
                        Poly("d" \o ToString(k), 37600 + 3 * k, 37601 + 3 * k,
                             55755, 55756, TRUE, 80, 2, 100, FALSE)]]

Datasets == {DatasetEmpty, DatasetB, DatasetMixed, DatasetMany}

LineString(nums) == [tag |-> "LINESTRING", nums |-> nums]

ItemA ==
    [id |-> Some("r_a"), algorithm |-> "shortest",
     total_distance |-> Some(1500), total_duration |-> Some(1100),
     maneuvers |-> <<<<LineString(<<37600, 55755, 37640, 55756>>)>>,
                     <<[tag |-> "POINT", nums |-> <<37640, 55756>>],
                       LineString(<<37640, 55756, 37680, 55757>>)>>>>]

ItemB ==
    [id |-> None, algorithm |-> "",
     total_distance |-> None, total_duration |-> None,
     maneuvers |-> <<<<LineString(<<38200, 55800, 38210, 55810>>)>>>>]

ItemNoGeom ==
    [id |-> Some("r_n"), algorithm |-> "fastest",
     total_distance |-> Some(800), total_duration |-> None,
     maneuvers |-> <<<<[tag |-> "POINT", nums |-> <<37617, 55755>>]>>>>]

ItemBad ==
    [id |-> Some("r_x"), algorithm |-> "",
     total_distance |-> Some(900), total_duration |-> Some(600),
     maneuvers |-> <<<<LineString(<<37617, 55755, 37618>>)>>>>]

Res(items) == [nonempty |-> TRUE, result |-> items]

ManyItems == [i \in 1..MaxRouteItems |-> IF i % 2 = 1 THEN ItemA ELSE ItemB]
ManyItemsBadTail == [i \in 1..MaxRouteItems |->
                        IF i = MaxRouteItems THEN ItemBad
                        ELSE IF i % 2 = 1 THEN ItemB ELSE ItemA]

ProviderData ==
    {EmptyDict, Res(<<>>), Res(<<ItemA>>), Res(<<ItemB>>), Res(<<ItemNoGeom>>),
     Res(<<ItemBad>>), Res(<<ItemB, ItemA>>), Res(ManyItems), Res(ManyItemsBadTail)}

\* body of a non-200 answer: a JSON object without routes
ErrorBody == [nonempty |-> TRUE, result |-> <<>>]

ProviderOutcomes ==
    {[kind |-> "ok", data |-> d] : d \in ProviderData}
    \cup {[kind |-> "status", data |-> ErrorBody]}
    \cup {[kind |-> k, data |-> EmptyDict] : k \in {"timeout", "error"}}

LightLookups ==
    {[kind |-> "ok", centers |-> <<>>],
     [kind |-> "ok", centers |-> <<[id |-> "sc1", lat |-> 55756, lon |-> 37618]>>],
     [kind |-> "fail", centers |-> <<>>],
     [kind |-> "raise", centers |-> <<>>]}

RandomPairs == {<<600, 10>>, <<800, 50>>}
RandomDraws == [1..RouteCap -> RandomPairs]

AvoidProfiles ==
    {[noise_above_db |-> Some(75), crowd_level_above |-> Some(4),
      puddles |-> FALSE, light_below_lux |-> Some(50)],
     [noise_above_db |-> None, crowd_level_above |-> None,
      puddles |-> FALSE, light_below_lux |-> None],
     [noise_above_db |-> Some(0), crowd_level_above |-> Some(1),
      puddles |-> TRUE, light_below_lux |-> Some(0)],
     [noise_above_db |-> Some(50), crowd_level_above |-> Some(2),
      puddles |-> TRUE, light_below_lux |-> Some(200)]}

PointS == [lat |-> 55755, lon |-> 37617]
PointE == [lat |-> 55760, lon |-> 37625]

Requests ==
    {[start |-> se[1], end |-> se[2],
      profile |-> [priorities |-> [noise |-> 5, crowd |-> 4, distance |-> 1],
                   avoid |-> a],
      alternatives |-> n] :
        se \in {<<PointS, PointE>>, <<PointE, PointS>>},
        a \in AvoidProfiles,
        n \in {2, 3}}

----------------------------------------------------------------------------
(* build_calm_route behind the /calm endpoint *)

Pending == [kind |-> "pending", value |-> None, exc |-> ""]
NoHttp == [kind |-> "pending", status_code |-> 0, body |-> None]

\* variant: the slice is missing (no list is longer than four full layers)
ExcludeCap_Unbounded == 4 * SegmentCap

ExcludeCap == 20

start == <<request.start.lat, request.start.lon>>
end == <<request.end.lat, request.end.lon>>

\* build_calm_route returns value (None or Some(response)); the endpoint
\* hands it on
Returns(value) ==
    /\ result' = [kind |-> "return", value |-> value, exc |-> ""]
    /\ http' = [kind |-> "return", status_code |-> 0, body |-> value]
    /\ pc' = "done"

\* build_calm_route raises ValueError; the endpoint turns it into a 400
RaisesValueError ==
    /\ result' = [kind |-> "raise", value |-> None, exc |-> "ValueError"]
    /\ http' = [kind |-> "HTTPException", status_code |-> 400, body |-> None]
    /\ pc' = "done"

\* the large dataset is served for one request; the others for every request
Scenario ==
    \/ polygons_by_layer # DatasetMany
    \/ /\ request.start = PointS
       /\ request.alternatives = 2
       /\ request.profile.avoid.noise_above_db = Some(75)
       /\ USE_REAL_DATA

Init ==
    /\ request \in Requests
    /\ pc = "RequestBaseRoute"
    /\ base_route = EmptyDict
    /\ bbox = <<0, 0, 0, 0>>
    /\ all_layers = DatasetEmpty
    /\ problematic_polygons = <<>>
    /\ merged_polygons = <<>>
    /\ exclude_polygons = <<>>
    /\ calm_route = EmptyDict
    /\ result = Pending
    /\ http = NoHttp
    /\ calls = <<>>
    /\ polygons_by_layer \in Datasets
    /\ loader_gis_service = TRUE
    /\ USE_REAL_DATA \in BOOLEAN
    /\ Scenario
    /\ vf_args = <<>>
    /\ vf_ret = None
    /\ attempts = <<>>
    /\ layer_fetches = 0
    /\ storage = StorageAtStart
    /\ places_calls = <<>>
    /\ tasks = <<>>
    /\ fn_args = <<>>
    /\ fn_ret = None

\* lines 19-34: the first provider call, the fallback return, the bounding box
RequestBaseRoute ==
    /\ pc = "RequestBaseRoute"
    /\ \E outcome \in ProviderOutcomes :
        /\ calls' = Append(calls, BuildPayload(start, end, "pedestrian", <<>>))
        /\ attempts' = Append(attempts, outcome.kind)
        /\ base_route' = GetRoute(outcome)
        /\ IF ~GetRoute(outcome).nonempty
           THEN Returns(Some(create_fallback_route(request))) /\ UNCHANGED bbox
           ELSE IF RouteBboxRaises(GetRoute(outcome))
           THEN RaisesValueError /\ UNCHANGED bbox
           ELSE /\ bbox' = get_route_bbox(GetRoute(outcome))
                /\ pc' = "FindProblems"
                /\ UNCHANGED <<result, http>>
    /\ UNCHANGED <<request, all_layers, problematic_polygons, merged_polygons,
                   exclude_polygons, calm_route, polygons_by_layer,
                   loader_gis_service, USE_REAL_DATA, vf_args, vf_ret,
                   layer_fetches, fn_args, fn_ret,
                   storage, places_calls, tasks>>

\* variant: the second provider call is made whether or not a problem was found
FindProblems_AlwaysReroute ==
    /\ pc = "FindProblems"
    /\ \E lookup \in LightLookups :
        LET layers == get_all_layers(bbox, lookup)
            problems == find_problematic_polygons(layers, request.profile.avoid)
            merged == merge_intersecting_polygons(problems)
        IN /\ all_layers' = layers
           /\ polygons_by_layer' = LoadedAfterLayers(bbox, lookup)
           /\ layer_fetches' = layer_fetches + 1
           /\ problematic_polygons' = problems
           /\ merged_polygons' = merged
           /\ exclude_polygons' =
                Take([i \in 1..Len(merged) |->
                        create_exclude_polygon(merged[i].coordinates)],
                     ExcludeCap)
           /\ pc' = "RequestCalmRoute"
           /\ UNCHANGED <<result, http>>
    /\ UNCHANGED <<request, base_route, bbox, calm_route, calls,
                   loader_gis_service, USE_REAL_DATA, vf_args, vf_ret,
                   attempts, fn_args, fn_ret,
                   storage, places_calls, tasks>>

\* lines 35-50 and 66-67: layers, problems, merge, exclusions; without
\* problems the method ends without a return statement
FindProblems ==
    /\ pc = "FindProblems"
    /\ \E lookup \in LightLookups :
        LET layers == get_all_layers(bbox, lookup)
            problems == find_problematic_polygons(layers, request.profile.avoid)
            merged == merge_intersecting_polygons(problems)
        IN /\ all_layers' = layers
           /\ polygons_by_layer' = LoadedAfterLayers(bbox, lookup)
           /\ layer_fetches' = layer_fetches + 1
           /\ problematic_polygons' = problems
           /\ IF problems # <<>>
              THEN /\ merged_polygons' = merged
                   /\ exclude_polygons' =
                        Take([i \in 1..Len(merged) |->
                                create_exclude_polygon(merged[i].coordinates)],
                             ExcludeCap)
                   /\ pc' = "RequestCalmRoute"
                   /\ UNCHANGED <<result, http>>
              ELSE /\ Returns(None)
                   /\ UNCHANGED <<merged_polygons, exclude_polygons>>
    /\ UNCHANGED <<request, base_route, bbox, calm_route, calls,
                   loader_gis_service, USE_REAL_DATA, vf_args, vf_ret,
                   attempts, fn_args, fn_ret,
                   storage, places_calls, tasks>>

\* variant: the result of the second call is converted even when empty
ResponseSource_AlwaysCalm(calm, base) == calm

\* variant: the base route is converted whatever the second call answers
ResponseSource_AlwaysBase(calm, base) == base

\* lines 59-65: the route that is converted after the second call
ResponseSource(calm, base) == IF calm.nonempty THEN calm ELSE base

\* lines 52-65: the second provider call and the conversion
RequestCalmRoute ==
    /\ pc = "RequestCalmRoute"
    /\ \E outcome \in ProviderOutcomes, draws \in RandomDraws :
        LET source == ResponseSource(GetRoute(outcome), base_route)
        IN /\ calls' = Append(calls, BuildPayload(start, end, "pedestrian",
                                                  exclude_polygons))
           /\ attempts' = Append(attempts, outcome.kind)
           /\ calm_route' = GetRoute(outcome)
           /\ IF ConvertRaises(source)
              THEN RaisesValueError
              ELSE Returns(Some(convert_route_to_response(source, request, draws)))
    /\ UNCHANGED <<request, base_route, bbox, all_layers, problematic_polygons,
                   merged_polygons, exclude_polygons, polygons_by_layer,
                   loader_gis_service, USE_REAL_DATA, vf_args, vf_ret,
                   layer_fetches, fn_args, fn_ret,
                   storage, places_calls, tasks>>

Next == RequestBaseRoute \/ FindProblems \/ RequestCalmRoute

Spec == Init /\ [][Next]_vars

----------------------------------------------------------------------------
(* _violates_filters as a function of its arguments *)

VFInputs ==
    [metrics : [noise_db : {0, 60, 80}, crowd_level : {3, 5},
                light_lux : {30, 180}, puddles : BOOLEAN],
     avoid : [noise_above_db : {None, Some(0), Some(75)},
              crowd_level_above : {None, Some(4)},
              puddles : BOOLEAN,
              light_below_lux : {None, Some(0), Some(50)}],
     layer_type : LayerTypes \cup {"other"}]

InitVF ==
    /\ request \in {r \in Requests : r.start = PointS /\ r.alternatives = 3
                                     /\ r.profile.avoid.noise_above_db = None}
    /\ pc = "idle"
    /\ base_route = EmptyDict
    /\ bbox = <<0, 0, 0, 0>>
    /\ all_layers = DatasetEmpty
    /\ problematic_polygons = <<>>
    /\ merged_polygons = <<>>
    /\ exclude_polygons = <<>>
    /\ calm_route = EmptyDict
    /\ result = Pending
    /\ http = NoHttp
    /\ calls = <<>>
    /\ polygons_by_layer = DatasetEmpty
    /\ loader_gis_service = TRUE
    /\ USE_REAL_DATA = TRUE
    /\ vf_args \in VFInputs
    /\ vf_ret = None
    /\ attempts = <<>>
    /\ layer_fetches = 0
    /\ storage = StorageAtStart
    /\ places_calls = <<>>
    /\ tasks = <<>>
    /\ fn_args = <<>>
    /\ fn_ret = None

CallViolatesFilters ==
    /\ pc = "idle"
    /\ vf_ret = None
    /\ vf_ret' = Some(violates_filters(vf_args.metrics, vf_args.avoid,
                                       vf_args.layer_type))
    /\ UNCHANGED <<request, pc, base_route, bbox, all_layers, problematic_polygons,
                   merged_polygons, exclude_polygons, calm_route, result, http,
                   calls, polygons_by_layer, loader_gis_service, USE_REAL_DATA,
                   vf_args, attempts, layer_fetches, fn_args, fn_ret,
                   storage, places_calls, tasks>>

NextVF == CallViolatesFilters

SpecVF == InitVF /\ [][NextVF]_vars

----------------------------------------------------------------------------
(* Functions evaluated on their own: the pipeline is at rest, the arguments *)
(* are in fn_args and one call stores the return value in fn_ret.           *)

\* the pipeline's variables before any request is served
AtRest ==
    /\ request \in {r \in Requests : r.start = PointS /\ r.alternatives = 3
                                     /\ r.profile.avoid.noise_above_db = None}
    /\ base_route = EmptyDict
    /\ bbox = <<0, 0, 0, 0>>
    /\ all_layers = DatasetEmpty
    /\ problematic_polygons = <<>>
    /\ merged_polygons = <<>>
    /\ exclude_polygons = <<>>
    /\ calm_route = EmptyDict
    /\ result = Pending
    /\ http = NoHttp
    /\ calls = <<>>
    /\ attempts = <<>>
    /\ layer_fetches = 0
    /\ storage = StorageAtStart
    /\ places_calls = <<>>
    /\ tasks = <<>>
    /\ vf_args = <<>>
    /\ vf_ret = None

\* a call that only produces a return value
ReturnsOnly ==
    UNCHANGED <<request, pc, base_route, bbox, all_layers, problematic_polygons,
                merged_polygons, exclude_polygons, calm_route, result, http,
                calls, polygons_by_layer, loader_gis_service, USE_REAL_DATA,
                vf_args, vf_ret, attempts, layer_fetches, fn_args,
                   storage, places_calls, tasks>>

(* _merge_intersecting_polygons as a function of the problem list *)

Problem(id, layer_type, coords) ==
    [id |-> id, type |-> layer_type, coordinates |-> coords, reason |-> ""]

\* p1 and p2 overlap, p2 and p3 overlap, p1 and p3 do not; p4 lies apart and
\* has an open ring; p5 has too few points to be a polygon; p6 meets p4 in
\* one corner point and nothing else
ProblemPool ==
    {Problem("p1", "noise", RectRing(37610, 55755, 37620, 55757)),
     Problem("p2", "noise", RectRing(37615, 55755, 37625, 55757)),
     Problem("p3", "crowd", RectRing(37622, 55755, 37630, 55757)),
     Problem("p4", "light", SubSeq(RectRing(37640, 55755, 37650, 55757), 1, 4)),
     Problem("p5", "puddles", <<<<37660, 55755>>, <<37670, 55757>>>>),
     Problem("p6", "noise", RectRing(37650, 55757, 37655, 55759))}

\* longest problem list handed to the merger
MaxProblems == 3

MergeInputs ==
    UNION {[1..n -> ProblemPool] : n \in 0..MaxProblems}

InitMerge ==
    /\ AtRest
    /\ pc = "merge"
    /\ polygons_by_layer = DatasetEmpty
    /\ loader_gis_service = TRUE
    /\ USE_REAL_DATA = TRUE
    /\ fn_args \in MergeInputs
    /\ fn_ret = None

CallMerge ==
    /\ pc = "merge"
    /\ fn_ret = None
    /\ fn_ret' = Some(merge_intersecting_polygons(fn_args))
    /\ ReturnsOnly

NextMerge == CallMerge

SpecMerge == InitMerge /\ [][NextMerge]_vars

----------------------------------------------------------------------------
(* The two calm-score functions as functions of metrics and priorities.     *)
(* Priority weights are in tenths; the weighted score is in hundredths.     *)

\* variant: the weighted sum is returned as computed
RoutingService_calculate_calm_score_Unclamped(metrics, priorities) ==
    LET noise_score50 == Max(0, 900 - metrics.avg_noise_db)
        crowd_score4 == 50 - metrics.avg_crowd
        distance_score100 == Max(0, 2000 - metrics.distance_m)
    IN 2 * noise_score50 * priorities.noise
       + 25 * crowd_score4 * priorities.crowd
       + distance_score100 * priorities.distance

\* RoutingService._calculate_calm_score
RoutingService_calculate_calm_score(metrics, priorities) ==
    LET noise_score50 == Max(0, 900 - metrics.avg_noise_db)
        crowd_score4 == 50 - metrics.avg_crowd
        distance_score100 == Max(0, 2000 - metrics.distance_m)
        calm_score100 == 2 * noise_score50 * priorities.noise
                         + 25 * crowd_score4 * priorities.crowd
                         + distance_score100 * priorities.distance
    IN Min(1000, Max(0, calm_score100))

\* calm_score of the Route built by calculate_calm_routes, in tenths
RoutingService_route_calm_score(metrics, priorities) ==
    RoundDiv(RoutingService_calculate_calm_score(metrics, priorities), 10)

\* valid metrics: avg_crowd within 1..5, any noise level, any distance >= 0
ScoreInputs ==
    [metrics : [avg_noise_db : {-500, 0, 400, 655, 900, 2000},
                avg_crowd : {10, 25, 50},
                distance_m : {0, 1000, 1550, 5000}],
     priorities : [noise : {0, 5, 10}, crowd : {0, 4, 10}, distance : {0, 1, 10}]]

InitScore ==
    /\ AtRest
    /\ pc = "score"
    /\ polygons_by_layer = DatasetEmpty
    /\ loader_gis_service = TRUE
    /\ USE_REAL_DATA = TRUE
    /\ fn_args \in ScoreInputs
    /\ fn_ret = None

CallCalmScore ==
    /\ pc = "score"
    /\ fn_ret = None
    /\ fn_ret' = Some([fixed |-> calculate_calm_score(fn_args.metrics),
                       weighted |-> RoutingService_calculate_calm_score(
                                        fn_args.metrics, fn_args.priorities),
                       route |-> RoutingService_route_calm_score(
                                        fn_args.metrics, fn_args.priorities)])
    /\ ReturnsOnly

\* the score functions on their own, next to the requests that use them
NextScore == CallCalmScore \/ Next

SpecScore == (InitScore \/ Init) /\ [][NextScore]_vars

----------------------------------------------------------------------------
(* Ring closing as a function of the ring: convert_to_segments closes a     *)
(* ring, the merger closes the ring of the segment once more.               *)

RingPoints == {<<37610, 55755>>, <<37620, 55755>>, <<37620, 55757>>}

\* longest ring that is closed
MaxRingLen == 4

Rings == UNION {[1..n -> RingPoints] : n \in 1..MaxRingLen}

InitRing ==
    /\ AtRest
    /\ pc = "ring"
    /\ polygons_by_layer = DatasetEmpty
    /\ loader_gis_service = TRUE
    /\ USE_REAL_DATA = TRUE
    /\ fn_args \in Rings
    /\ fn_ret = <<>>

\* fn_ret collects the ring after the first and after the second closing
CallCloseRing ==
    /\ pc = "ring"
    /\ Len(fn_ret) < 2
    /\ fn_ret' = Append(fn_ret, CloseRing(IF fn_ret = <<>> THEN fn_args
                                          ELSE fn_ret[Len(fn_ret)]))
    /\ ReturnsOnly

NextRing == CallCloseRing

SpecRing == InitRing /\ [][NextRing]_vars

----------------------------------------------------------------------------
(* _intersects_bbox as a function of the ring and the bounding box *)

BoxRingPoints ==
    {<<lon, lat>> : lon \in {37609, 37610, 37615, 37620, 37621},
                    lat \in {55754, 55755, 55757, 55758}}

\* longest ring tested against a bounding box
MaxBoxRingLen == 2

\* a box, a box whose sides fall between grid points, a box of zero size
Boxes ==
    {<<557550, 376100, 557570, 376200>>,
     <<557545, 376095, 557575, 376205>>,
     <<557550, 376100, 557550, 376100>>}

BoxInputs ==
    [coords : UNION {[1..n -> BoxRingPoints] : n \in 1..MaxBoxRingLen},
     bbox : Boxes]

InitBox ==
    /\ AtRest
    /\ pc = "box"
    /\ polygons_by_layer = DatasetEmpty
    /\ loader_gis_service = TRUE
    /\ USE_REAL_DATA = TRUE
    /\ fn_args \in BoxInputs
    /\ fn_ret = None

CallIntersectsBbox ==
    /\ pc = "box"
    /\ fn_ret = None
    /\ fn_ret' = Some(intersects_bbox(fn_args.coords, fn_args.bbox))
    /\ ReturnsOnly

NextBox == CallIntersectsBbox

SpecBox == InitBox /\ [][NextBox]_vars

----------------------------------------------------------------------------
(* _get_route_bbox as a function of the provider result *)

BboxPoints == {<<37600, 55755>>, <<37640, 55756>>, <<37620, 55750>>}

\* selections of a route item: line strings of one or two points, or a
\* selection that is not a line string
BboxSelections ==
    {LineString(p \o q) : p \in BboxPoints, q \in BboxPoints \cup {<<>>}}
    \cup {[tag |-> "POINT", nums |-> <<37617, 55755>>]}

\* most route items of a provider result handed to _get_route_bbox
MaxBboxItems == 2

BboxRoutes ==
    {Res(items) :
        items \in UNION {[1..n -> {[id |-> None, algorithm |-> "",
                                    total_distance |-> None,
                                    total_duration |-> None,
                                    maneuvers |-> <<<<sel>>>>] :
                                        sel \in BboxSelections}] :
                         n \in 0..MaxBboxItems}}

InitRouteBbox ==
    /\ AtRest
    /\ pc = "route_bbox"
    /\ polygons_by_layer = DatasetEmpty
    /\ loader_gis_service = TRUE
    /\ USE_REAL_DATA = TRUE
    /\ fn_args \in BboxRoutes
    /\ fn_ret = None

CallGetRouteBbox ==
    /\ pc = "route_bbox"
    /\ fn_ret = None
    /\ ~RouteBboxRaises(fn_args)
    /\ fn_ret' = Some(get_route_bbox(fn_args))
    /\ ReturnsOnly

NextRouteBbox == CallGetRouteBbox

SpecRouteBbox == InitRouteBbox /\ [][NextRouteBbox]_vars

----------------------------------------------------------------------------
(* The condition-layer provider from process start: importing mock_data     *)
(* builds the loader without a provider client, MapService attaches the     *)
(* client to it, then the layers of a bounding box are fetched.             *)

\* PolygonLoader.__init__: the files' polygons; the light file is not read
\* when a provider client is given
PolygonLoader_init(files, gis_service) ==
    [layer_type \in LayerTypes |->
        IF layer_type = "light" /\ gis_service THEN <<>> ELSE files[layer_type]]

\* number of polygons of the large files and of centres of the large lookup
NumLarge == 201

\* noise and light files with more polygons than a layer may carry
DatasetLarge ==
    [DatasetEmpty EXCEPT
        !["noise"] = [k \in 1..NumLarge |->
                        Poly("N" \o ToString(k), 37000 + 3 * k, 37001 + 3 * k,
                             55755, 55756, TRUE, 80, 2, 100, FALSE)],
        !["light"] = [k \in 1..NumLarge |->
                        Poly("L" \o ToString(k), 37000 + 3 * k, 37001 + 3 * k,
                             55755, 55756, k % 2 = 0, 60, 2, 30, FALSE)]]

LayerFiles == {DatasetEmpty, DatasetB, DatasetMixed, DatasetLarge}

\* a box around everything, a box around part of the large files, a box
\* around the polygons of the small files, a box around nothing
LayerBoxes ==
    {<<557000, 370000, 558000, 380000>>,
     <<557500, 370000, 557600, 373000>>,
     <<557540, 376000, 557580, 376480>>,
     <<558000, 382000, 558100, 382100>>}

LayerLookups ==
    LightLookups
    \cup {[kind |-> "ok",
           centers |-> [k \in 1..NumLarge |->
                          [id |-> "c" \o ToString(k), lat |-> 55756,
                           lon |-> 37000 + 3 * k]]]}

LayerInputs == [files : LayerFiles, bbox : LayerBoxes, lookup : LayerLookups]

InitLayers ==
    /\ AtRest
    /\ pc = "import_mock_data"
    /\ polygons_by_layer = DatasetEmpty
    /\ loader_gis_service = FALSE
    /\ USE_REAL_DATA \in BOOLEAN
    /\ fn_args \in LayerInputs
    /\ fn_ret = None

\* mock_data.py:533: the module's own generator creates the loader singleton
\* without a provider client, so all four files are read
ImportMockData ==
    /\ pc = "import_mock_data"
    /\ polygons_by_layer' = PolygonLoader_init(fn_args.files, FALSE)
    /\ loader_gis_service' = FALSE
    /\ pc' = "MapService"
    /\ UNCHANGED <<request, base_route, bbox, all_layers, problematic_polygons,
                   merged_polygons, exclude_polygons, calm_route, result, http,
                   calls, USE_REAL_DATA, vf_args, vf_ret, attempts,
                   layer_fetches, fn_args, fn_ret,
                   storage, places_calls, tasks>>

\* MapService.__init__: get_polygon_loader(gis_service) finds the singleton
\* and sets its client; the datasets stay as loaded
MapServiceInit ==
    /\ pc = "MapService"
    /\ loader_gis_service' = TRUE
    /\ pc' = "layers"
    /\ UNCHANGED <<request, base_route, bbox, all_layers, problematic_polygons,
                   merged_polygons, exclude_polygons, calm_route, result, http,
                   calls, polygons_by_layer, USE_REAL_DATA, vf_args, vf_ret,
                   attempts, layer_fetches, fn_args, fn_ret,
                   storage, places_calls, tasks>>

CallGetAllLayers ==
    /\ pc = "layers"
    /\ fn_ret = None
    /\ fn_ret' = Some(get_all_layers(fn_args.bbox, fn_args.lookup))
    /\ ReturnsOnly

NextLayers == ImportMockData \/ MapServiceInit \/ CallGetAllLayers

SpecLayers == InitLayers /\ [][NextLayers]_vars

----------------------------------------------------------------------------
(* Place search and reviews: the /places endpoints, PlacesService and       *)
(* PlacesStorage.  Each request is an event-loop task; a task runs without  *)
(* interruption from one await on the network to the next.  Ratings are in  *)
(* tenths.  A dict keyed by filter type is a function over the filter       *)
(* types, <<>> standing for a missing key.                                  *)

\* three of the nine members of AccessibilityFilter
AccessibilityFilter == {"wheelchair_access", "low_noise", "hearing_loop"}

RECURSIVE SeqSum(_)
SeqSum(s) == IF s = <<>> THEN 0 ELSE s[1] + SeqSum(Tail(s))

\* str.strip on the pieces used here
Strip(piece) == IF piece = " low_noise" THEN "low_noise" ELSE piece

\* filters is None or <<pieces>>, pieces being filters.split(","); the empty
\* string splits into <<"">> and is falsy
FiltersTruthy(filters) == filters # None /\ filters[1] # <<"">>

\* index of the first piece that is not a member of AccessibilityFilter, 0 if none
FirstUnknown(filters) ==
    IF ~FiltersTruthy(filters) THEN 0
    ELSE LET bad == {i \in 1..Len(filters[1]) :
                        Strip(filters[1][i]) \notin AccessibilityFilter}
         IN IF bad = {} THEN 0 ELSE CHOOSE i \in bad : \A j \in bad : i <= j

filter_list(filters) ==
    IF ~FiltersTruthy(filters) THEN <<>>
    ELSE [i \in 1..Len(filters[1]) |-> Strip(filters[1][i])]

\* lines 33-36 and 51-52: the HTTPException raised for the unknown filter is
\* an Exception, not a ValueError, so the last handler of the enclosing try
\* catches it and raises status 500 with the first exception's text
UnknownFilterResponse(piece) ==
    [kind |-> "HTTPException", status_code |-> 500,
     body |-> Some([detail |-> "place search error: 400: unknown filter",
                    filter |-> piece])]

\* --- PlacesStorage ---

save_place_accessibility(st, place_id, data) ==
    [st EXCEPT !.accessibility_data[place_id] = Some(data),
               !.writes = @ + 1]

add_place_review(st, place_id, review) ==
    [st EXCEPT !.reviews_data[place_id] =
                    Append(@, [id |-> "review_" \o ToString(Len(@) + 1),
                               author |-> review.author,
                               rating |-> review.rating,
                               text |-> review.text]),
               !.writes = @ + 1]

\* --- PlacesService ---

calculate_overall_rating(conditions) ==
    LET have == {f \in AccessibilityFilter : conditions[f] # None}
        RECURSIVE Total(_)
        Total(S) == IF S = {} THEN 0
                    ELSE LET f == CHOOSE g \in S : TRUE
                         IN conditions[f][1] + Total(S \ {f})
    IN IF have = {} THEN 0 ELSE RoundDiv(Total(have), Cardinality(have))

\* all_ratings after the loop of lines 157-162
RECURSIVE CollectRatings(_, _)
CollectRatings(all_ratings, ratings) ==
    IF ratings = <<>> THEN all_ratings
    ELSE CollectRatings(
            IF ratings[1].rating > 0
            THEN [all_ratings EXCEPT ![ratings[1].filter_type] =
                                        Append(@, ratings[1].rating)]
            ELSE all_ratings,
            Tail(ratings))

\* variant: the ratings of the review replace the ratings stored so far
update_accessibility_from_review_Fresh(st, place_id, ratings) ==
    LET all_ratings == CollectRatings([f \in AccessibilityFilter |-> <<>>], ratings)
        accessibility_conditions ==
            [f \in AccessibilityFilter |->
                IF all_ratings[f] # <<>>
                THEN Some(RoundDiv(SeqSum(all_ratings[f]), Len(all_ratings[f])))
                ELSE None]
    IN save_place_accessibility(st, place_id,
          [accessibility_conditions |-> accessibility_conditions,
           all_ratings |-> all_ratings,
           overall_rating |-> calculate_overall_rating(accessibility_conditions)])

update_accessibility_from_review(st, place_id, ratings) ==
    LET current_data == st.accessibility_data[place_id]
        all_ratings == CollectRatings(
                           IF current_data = None
                           THEN [f \in AccessibilityFilter |-> <<>>]
                           ELSE current_data[1].all_ratings,
                           ratings)
        accessibility_conditions ==
            [f \in AccessibilityFilter |->
                IF all_ratings[f] # <<>>
                THEN Some(RoundDiv(SeqSum(all_ratings[f]), Len(all_ratings[f])))
                ELSE None]
    IN save_place_accessibility(st, place_id,
          [accessibility_conditions |-> accessibility_conditions,
           all_ratings |-> all_ratings,
           overall_rating |-> calculate_overall_rating(accessibility_conditions)])

\* PlacesService.add_review; the file writes succeed
add_review(st, req) ==
    update_accessibility_from_review(
        add_place_review(st, req.place_id,
                         [author |-> req.author, rating |-> req.overall_rating,
                          text |-> req.text]),
        req.place_id, req.accessibility_ratings)

\* generate_accessibility_data for a draw of the available conditions
generate_accessibility_data(draw) ==
    [accessibility_conditions |-> draw,
     all_ratings |-> [f \in AccessibilityFilter |->
                         IF draw[f] = None THEN <<>> ELSE <<draw[f][1]>>],
     overall_rating |-> calculate_overall_rating(draw)]

\* the three reviews of _generate_reviews
generate_reviews ==
    <<[author |-> "Anna S.", rating |-> 4, text |-> "template 1"],
      [author |-> "Mikhail M.", rating |-> 5, text |-> "template 2"],
      [author |-> "Elena K.", rating |-> 4, text |-> "template 3"]>>

RECURSIVE AddReviews(_, _, _)
AddReviews(st, place_id, reviews) ==
    IF reviews = <<>> THEN st
    ELSE AddReviews(add_place_review(st, place_id, reviews[1]), place_id, Tail(reviews))

\* storage after _process_place
ProcessPlaceStorage(st, gis_place, draw) ==
    LET st1 == IF st.accessibility_data[gis_place.id] = None
               THEN save_place_accessibility(st, gis_place.id,
                                             generate_accessibility_data(draw))
               ELSE st
    IN IF st1.reviews_data[gis_place.id] = <<>>
       THEN AddReviews(st1, gis_place.id, generate_reviews)
       ELSE st1

\* the place is part of the answer: it offers every requested filter
ProcessPlaceKept(st, gis_place, filters) ==
    \A i \in 1..Len(filters) :
        st.accessibility_data[gis_place.id][1].accessibility_conditions[filters[i]] # None

RECURSIVE ProcessPlaces(_, _, _, _, _)
\* <<storage, ids of the places of the answer>> after the loop of lines 41-44
ProcessPlaces(st, gis_places, filters, draw, kept) ==
    IF gis_places = <<>> THEN <<st, kept>>
    ELSE LET st1 == ProcessPlaceStorage(st, gis_places[1], draw)
         IN ProcessPlaces(st1, Tail(gis_places), filters, draw,
                          IF ProcessPlaceKept(st1, gis_places[1], filters)
                          THEN Append(kept, gis_places[1].id) ELSE kept)

\* conditions the five mock places offer, among the modelled filters
MockAvailability ==
    <<{"wheelchair_access", "low_noise"},
      {"wheelchair_access", "low_noise", "hearing_loop"},
      {"wheelchair_access", "low_noise"},
      {"wheelchair_access", "low_noise", "hearing_loop"},
      {"wheelchair_access"}>>

\* ids of the places generate_mock_places answers with
generate_mock_places(filters) ==
    LET idx == SelectSeq([i \in 1..Len(MockAvailability) |-> i],
                         LAMBDA i : \A k \in 1..Len(filters) :
                                        filters[k] \in MockAvailability[i])
    IN [k \in 1..Len(idx) |-> "place_00" \o ToString(idx[k] - 1)]

\* --- inputs ---

SearchRequests ==
    [query : {"cafe"},
     filters : {None, Some(<<"wheelchair_access", " low_noise">>),
                Some(<<"low_noise", "quiet">>), Some(<<"hearing_loop", "">>)}]

\* answers of the places provider: places found, or nothing (no result,
\* timeout, error, status)
PlacesOutcomes ==
    {<<>>, <<[id |-> "70001", name |-> "cafe 1"]>>,
     <<[id |-> "70002", name |-> "cafe 2"], [id |-> "70001", name |-> "cafe 1"]>>}

AccessibilityDraws ==
    {[f \in AccessibilityFilter |-> Some(40)],
     [f \in AccessibilityFilter |-> IF f = "wheelchair_access" THEN Some(35) ELSE None]}

RatingLists ==
    {<<[filter_type |-> "low_noise", rating |-> 45]>>,
     <<[filter_type |-> "low_noise", rating |-> 30],
       [filter_type |-> "hearing_loop", rating |-> 0]>>}

\* most tasks of the places endpoints in one run
MaxTasks == 3

\* the review requests; the author tells the submissions apart
ReviewRequests(n) ==
    [place_id : PlaceIds, author : {"author " \o ToString(n)},
     overall_rating : {4}, text : {"text"}, accessibility_ratings : RatingLists]

\* --- the endpoints as tasks ---

PlacesFrame ==
    UNCHANGED <<request, pc, base_route, bbox, all_layers, problematic_polygons,
                merged_polygons, exclude_polygons, calm_route, result, http,
                calls, polygons_by_layer, loader_gis_service, USE_REAL_DATA,
                vf_args, vf_ret, attempts, layer_fetches, fn_args, fn_ret>>

\* search_places up to the await on the places provider (places.py 24-47,
\* places_service.py 26-33)
SearchPlacesStart ==
    /\ pc = "places"
    /\ Len(tasks) < MaxTasks
    /\ \E req \in SearchRequests :
        IF FirstUnknown(req.filters) # 0
        THEN /\ tasks' = Append(tasks,
                    [kind |-> "search", req |-> req, pc |-> "done",
                     http |-> UnknownFilterResponse(
                                  Strip(req.filters[1][FirstUnknown(req.filters)]))])
             /\ UNCHANGED places_calls
        ELSE /\ tasks' = Append(tasks,
                    [kind |-> "search", req |-> req, pc |-> "await_provider",
                     http |-> NoHttp])
             /\ places_calls' = Append(places_calls, req.query)
    /\ UNCHANGED storage
    /\ PlacesFrame

\* search_places from the provider's answer to the response
SearchPlacesFinish ==
    /\ pc = "places"
    /\ \E i \in 1..Len(tasks), gis_places \in PlacesOutcomes, draw \in AccessibilityDraws :
        /\ tasks[i].pc = "await_provider"
        /\ LET filters == filter_list(tasks[i].req.filters)
               done == ProcessPlaces(storage, gis_places, filters, draw, <<>>)
           IN IF gis_places = <<>>
              THEN /\ tasks' = [tasks EXCEPT ![i].pc = "done",
                                   ![i].http = [kind |-> "return", status_code |-> 200,
                                                body |-> Some(generate_mock_places(filters))]]
                   /\ UNCHANGED storage
              ELSE /\ tasks' = [tasks EXCEPT ![i].pc = "done",
                                   ![i].http = [kind |-> "return", status_code |-> 200,
                                                body |-> Some(done[2])]]
                   /\ storage' = done[1]
    /\ UNCHANGED places_calls
    /\ PlacesFrame

\* a POST /reviews request arrives; its task has not run yet
AddReviewSubmit ==
    /\ pc = "places"
    /\ Len(tasks) < MaxTasks
    /\ \E req \in ReviewRequests(Len(tasks) + 1) :
        tasks' = Append(tasks, [kind |-> "add_review", req |-> req, pc |-> "start",
                                http |-> NoHttp])
    /\ UNCHANGED <<storage, places_calls>>
    /\ PlacesFrame

\* the task runs add_review to its end: neither add_place_review nor
\* _update_accessibility_from_review suspends
AddReviewRun ==
    /\ pc = "places"
    /\ \E i \in 1..Len(tasks) :
        /\ tasks[i].kind = "add_review"
        /\ tasks[i].pc = "start"
        /\ storage' = add_review(storage, tasks[i].req)
        /\ tasks' = [tasks EXCEPT ![i].pc = "done",
                        ![i].http = [kind |-> "return", status_code |-> 204,
                                     body |-> None]]
    /\ UNCHANGED places_calls
    /\ PlacesFrame

InitPlaces ==
    /\ AtRest
    /\ pc = "places"
    /\ polygons_by_layer = DatasetEmpty
    /\ loader_gis_service = TRUE
    /\ USE_REAL_DATA = TRUE
    /\ fn_args = <<>>
    /\ fn_ret = None

NextPlaces == SearchPlacesStart \/ SearchPlacesFinish \/ AddReviewSubmit \/ AddReviewRun

SpecPlaces == InitPlaces /\ [][NextPlaces]_vars

(***************************************************************************)
(* Layer queries and route builds on the one loader                        *)
(* api/v1/endpoints/layers.py, services/calm_route_service.py              *)
(***************************************************************************)

SharedDatasets == {DatasetB, DatasetMixed}

SharedRequests ==
    {r \in Requests :
        /\ r.start = PointS
        /\ r.alternatives = 2
        /\ r.profile.avoid.noise_above_db \in {Some(75), None}}

InitShared ==
    /\ Init
    /\ polygons_by_layer \in SharedDatasets
    /\ request \in SharedRequests

\* layers.py: GET /layers runs between any two steps of a route build (the
\* builder awaits the provider); it reads the same loader
LayersEndpoint ==
    /\ \E b \in LayerBoxes, lookup \in LightLookups :
        /\ fn_ret' = Some(get_all_layers(b, lookup))
        /\ polygons_by_layer' = LoadedAfterLayers(b, lookup)
    /\ UNCHANGED <<request, pc, base_route, bbox, all_layers,
                   problematic_polygons, merged_polygons, exclude_polygons,
                   calm_route, result, http, calls, loader_gis_service,
                   USE_REAL_DATA, vf_args, vf_ret, attempts, layer_fetches,
                   fn_args, storage, places_calls, tasks>>

\* the next POST /route/calm: a new build on the loader as the last one left it
NextBuild ==
    /\ pc = "done"
    /\ request' \in SharedRequests
    /\ pc' = "RequestBaseRoute"
    /\ base_route' = EmptyDict
    /\ bbox' = <<0, 0, 0, 0>>
    /\ all_layers' = DatasetEmpty
    /\ problematic_polygons' = <<>>
    /\ merged_polygons' = <<>>
    /\ exclude_polygons' = <<>>
    /\ calm_route' = EmptyDict
    /\ result' = Pending
    /\ http' = NoHttp
    /\ calls' = <<>>
    /\ attempts' = <<>>
    /\ layer_fetches' = 0
    /\ UNCHANGED <<polygons_by_layer, loader_gis_service, USE_REAL_DATA,
                   vf_args, vf_ret, fn_args, fn_ret, storage, places_calls,
                   tasks>>

NextShared ==
    \/ RequestBaseRoute
    \/ FindProblems
    \/ RequestCalmRoute
    \/ LayersEndpoint
    \/ NextBuild

SpecShared == InitShared /\ [][NextShared]_vars

(***************************************************************************)
(* Weighted-scoring routes: services/routing_service.py                    *)
(***************************************************************************)

\* generate_mock_routes(count=3)
BaseRouteCount == 3

\* base routes as generate_mock_routes builds them: a length and the metrics
\* of the segments along the path (noise in tenths of a dB, crowd in tenths)
BaseRoutePool ==
    {[distance_m |-> 1000, duration_min |-> 12,
      segments |-> <<[noise_db |-> 550, crowd_level |-> 20]>>],
     [distance_m |-> 1550, duration_min |-> 19,
      segments |-> <<[noise_db |-> 700, crowd_level |-> 30],
                     [noise_db |-> 655, crowd_level |-> 20]>>],
     [distance_m |-> 5000, duration_min |-> 62,
      segments |-> <<[noise_db |-> 900, crowd_level |-> 50]>>],
     [distance_m |-> 1200, duration_min |-> 15,
      segments |-> <<[noise_db |-> 480, crowd_level |-> 10],
                     [noise_db |-> 520, crowd_level |-> 10]>>]}

\* lines 73-103: the route's metrics (averages rounded to one decimal)
evaluate_route_metrics(route) ==
    LET n == Len(route.segments)
    IN [distance_m |-> route.distance_m,
        duration_min |-> route.duration_min,
        avg_noise_db |-> IF n > 0
                         THEN RoundDiv(SeqSum([k \in 1..n |-> route.segments[k].noise_db]), n)
                         ELSE 600,
        avg_crowd |-> IF n > 0
                      THEN RoundDiv(SeqSum([k \in 1..n |-> route.segments[k].crowd_level]), n)
                      ELSE 25]

\* lines 28-57: one Route per base route, in the order of the base routes
ScoredRoutes(base_routes, priorities) ==
    [idx \in 1..Len(base_routes) |->
        [id |-> "route_" \o ToString(idx),
         metrics |-> evaluate_route_metrics(base_routes[idx]),
         calm_score |-> RoutingService_route_calm_score(
                            evaluate_route_metrics(base_routes[idx]), priorities)]]

\* position of the first route with the highest (lowest) calm score
FirstBest(routes) ==
    CHOOSE i \in 1..Len(routes) :
        /\ \A j \in 1..Len(routes) : routes[j].calm_score <= routes[i].calm_score
        /\ \A j \in 1..(i - 1) : routes[j].calm_score < routes[i].calm_score

FirstWorst(routes) ==
    CHOOSE i \in 1..Len(routes) :
        /\ \A j \in 1..Len(routes) : routes[j].calm_score >= routes[i].calm_score
        /\ \A j \in 1..(i - 1) : routes[j].calm_score > routes[i].calm_score

Without(routes, i) == SubSeq(routes, 1, i - 1) \o SubSeq(routes, i + 1, Len(routes))

\* variant: the routes are sorted by rising calm score
RECURSIVE SortByCalmScore_Rising(_)
SortByCalmScore_Rising(routes) ==
    IF routes = <<>> THEN <<>>
    ELSE <<routes[FirstWorst(routes)]>>
         \o SortByCalmScore_Rising(Without(routes, FirstWorst(routes)))

\* line 59: calm_routes.sort(key=calm_score, reverse=True); the sort is
\* stable, routes with equal scores keep their order
RECURSIVE SortByCalmScore(_)
SortByCalmScore(routes) ==
    IF routes = <<>> THEN <<>>
    ELSE <<routes[FirstBest(routes)]>>
         \o SortByCalmScore(Without(routes, FirstBest(routes)))

\* lines 22-61
calculate_calm_routes(req, base_routes) ==
    Take(SortByCalmScore(ScoredRoutes(base_routes, req.priorities)),
         req.alternatives)

\* alternatives: ge=1, le=5; priorities: the defaults, all on noise, all zero
RouteRequests ==
    [alternatives : 1..5,
     priorities : {[noise |-> 5, crowd |-> 4, distance |-> 1],
                   [noise |-> 10, crowd |-> 0, distance |-> 0],
                   [noise |-> 0, crowd |-> 0, distance |-> 0]}]

RouteInputs ==
    [request : RouteRequests, base_routes : [1..BaseRouteCount -> BaseRoutePool]]

InitRoutes ==
    /\ AtRest
    /\ pc = "routes"
    /\ polygons_by_layer = DatasetEmpty
    /\ loader_gis_service = TRUE
    /\ USE_REAL_DATA = TRUE
    /\ fn_args \in RouteInputs
    /\ fn_ret = None

CallCalmRoutes ==
    /\ pc = "routes"
    /\ fn_ret = None
    /\ fn_ret' = Some(calculate_calm_routes(fn_args.request, fn_args.base_routes))
    /\ ReturnsOnly

NextRoutes == CallCalmRoutes

SpecRoutes == InitRoutes /\ [][NextRoutes]_vars

(***************************************************************************)
(* The loader singleton: data/polygon_loader.py get_polygon_loader         *)
(***************************************************************************)

\* pc = "no_loader": _polygon_loader is None; pc = "loader": it is set
InitLoader ==
    /\ AtRest
    /\ pc = "no_loader"
    /\ polygons_by_layer = DatasetEmpty
    /\ loader_gis_service = FALSE
    /\ USE_REAL_DATA \in BOOLEAN
    /\ fn_args \in LayerInputs
    /\ fn_ret = None

LoaderFrame ==
    UNCHANGED <<request, base_route, bbox, all_layers, problematic_polygons,
                merged_polygons, exclude_polygons, calm_route, result, http,
                calls, USE_REAL_DATA, vf_args, vf_ret, attempts,
                layer_fetches, fn_args, storage, places_calls, tasks>>

\* lines 224-225: the first call builds the loader with the caller's client
\* (MockDataGenerator() passes none, MapService passes its own)
CreateLoader ==
    /\ pc = "no_loader"
    /\ \E gis_service \in BOOLEAN :
        /\ polygons_by_layer' = PolygonLoader_init(fn_args.files, gis_service)
        /\ loader_gis_service' = gis_service
    /\ pc' = "loader"
    /\ UNCHANGED fn_ret
    /\ LoaderFrame

\* lines 227-229: a later call with a client sets it on a loader that has
\* none; the datasets are not read again
AttachClient ==
    /\ pc = "loader"
    /\ ~loader_gis_service
    /\ loader_gis_service' = TRUE
    /\ UNCHANGED <<pc, polygons_by_layer, fn_ret>>
    /\ LoaderFrame

\* the static-file path for the light layer
FindStaticLight ==
    /\ pc = "loader"
    /\ fn_ret = None
    /\ fn_ret' = Some(find_polygons_in_bbox("light", fn_args.bbox))
    /\ UNCHANGED <<pc, polygons_by_layer, loader_gis_service>>
    /\ LoaderFrame

NextLoader == CreateLoader \/ AttachClient \/ FindStaticLight

SpecLoader == InitLoader /\ [][NextLoader]_vars

----------------------------------------------------------------------------
(* Properties *)

Returned == pc = "done" /\ result.kind = "return"
Response == result.value[1]

RouteGeometries(response) ==
    [i \in 1..Len(response.routes) |-> response.routes[i].geometry.coordinates]

\* geometries of the first three alternatives of a provider result
ItemGeometries(route) ==
    [i \in 1..Min(3, Len(route.result)) |->
        IF ItemCoordinates(route.result[i]) = <<>> THEN DefaultGeometry
        ELSE ItemCoordinates(route.result[i])]

\* C1: a finished calm-route request has either produced a response with at
\* least one route that has a geometry, or the endpoint has raised an HTTP
\* error; a null response is never returned.
C1_ResponseOrError ==
    pc = "done" =>
        \/ http.kind = "HTTPException"
        \/ /\ result.kind = "return"
           /\ result.value # None
           /\ Len(Response.routes) >= 1
           /\ \A i \in 1..Len(Response.routes) :
                Len(Response.routes[i].geometry.coordinates) >= 2

\* C2: when the base call succeeded and no problematic polygon was found, the
\* request ends after one provider call with the converted base route, whose
\* geometries are the base route's.
C2_NoProblemsReturnsBase ==
    (Returned /\ base_route.nonempty /\ base_route.result # <<>>
       /\ problematic_polygons = <<>>) =>
        /\ Len(calls) = 1
        /\ result.value # None
        /\ RouteGeometries(Response) = ItemGeometries(base_route)

\* C3: when the base call returned nothing the response is the fallback
\* route: one route, the two-point line start -> end, 1200 m, 15 min, noise
\* 70.0, crowd 3.0, calm score 6.0, one explanation (provider unavailable).
C3_FallbackRoute ==
    (pc = "done" /\ ~base_route.nonempty) =>
        /\ result.kind = "return"
        /\ result.value # None
        /\ Len(Response.routes) = 1
        /\ Response.routes[1].geometry.coordinates =
              <<<<request.start.lon, request.start.lat>>,
                <<request.end.lon, request.end.lat>>>>
        /\ Response.routes[1].metrics =
              [distance_m |-> 1200, duration_min |-> 15,
               avg_noise_db |-> 700, avg_crowd |-> 30]
        /\ Response.routes[1].calm_score = 60
        /\ Len(Response.routes[1].explanations) = 1
        /\ Response.routes[1].explanations[1].reason = "2GIS API unavailable"

C3_Witness ==
    /\ Returned
    /\ ~base_route.nonempty
    /\ Len(calls) = 1
    /\ request.start = PointE

\* C4: when problems were found and the second call returned nothing, the
\* request ends without an error and the response is the conversion of the
\* base route.
C4_ExclusionFailureUsesBase ==
    (pc = "done" /\ Len(calls) = 2 /\ ~calm_route.nonempty) =>
        /\ http.kind = "return"
        /\ result.kind = "return"
        /\ result.value # None
        /\ \E draws \in RandomDraws :
              Response = convert_route_to_response(base_route, request, draws)
        /\ base_route.result # <<>> =>
              RouteGeometries(Response) = ItemGeometries(base_route)

C4_Witness ==
    /\ Returned
    /\ Len(calls) = 2
    /\ ~calm_route.nonempty
    /\ base_route.result # <<>>
    /\ problematic_polygons # <<>>

\* a second-call result that holds alternatives, all of them parsable
Usable(route) == route.nonempty /\ route.result # <<>> /\ ~ConvertRaises(route)

\* C5: when the second call returned a usable route, the response is the
\* conversion of that route: its routes carry the calm route's geometries.
C5_CalmRouteUsed ==
    (pc = "done" /\ Len(calls) = 2 /\ Usable(calm_route)) =>
        /\ result.kind = "return"
        /\ result.value # None
        /\ \E draws \in RandomDraws :
              Response = convert_route_to_response(calm_route, request, draws)
        /\ RouteGeometries(Response) = ItemGeometries(calm_route)

C5_Witness ==
    /\ Returned
    /\ Len(calls) = 2
    /\ Usable(calm_route)
    /\ base_route.result # <<>>
    /\ ItemGeometries(calm_route) # ItemGeometries(base_route)

\* the exclusion zone the provider expects for a ring
ExpectedExclusion(ring) ==
    [severity |-> "hard",
     type |-> "polyline",
     points |-> [k \in 1..Len(ring) |-> [lon |-> ring[k][1], lat |-> ring[k][2]]]]

\* C6: the second call has the endpoints of the first and one exclusion per
\* merger output, in merger order, up to 20; three noise polygons of which two
\* intersect give 2 merger outputs and a second call with 2 exclusions.
C6_SecondCallExclusions ==
    Len(calls) = 2 =>
        /\ calls[2].points = calls[1].points
        /\ calls[2].points = <<[lat |-> request.start.lat, lon |-> request.start.lon],
                               [lat |-> request.end.lat, lon |-> request.end.lon]>>
        /\ Len(calls[2].exclude) = Min(20, Len(merged_polygons))
        /\ \A i \in 1..Len(calls[2].exclude) :
              calls[2].exclude[i] = ExpectedExclusion(merged_polygons[i].coordinates)
        /\ ([i \in 1..Len(problematic_polygons) |-> problematic_polygons[i].id]
                = <<"n1", "n2", "n3">>) =>
              /\ Len(merged_polygons) = 2
              /\ merged_polygons[1].type = "merged"
              /\ merged_polygons[2].id = "n3"
              /\ Len(calls[2].exclude) = 2

C6_Witness ==
    /\ Len(calls) = 2
    /\ [i \in 1..Len(problematic_polygons) |-> problematic_polygons[i].id]
          = <<"n1", "n2", "n3">>
    /\ Len(calls[2].exclude) = 2

\* C7: at most 20 exclusions are built and sent; with more than 20 merged
\* polygons they are those of the first 20.
C7_ExclusionCap ==
    /\ Len(exclude_polygons) <= 20
    /\ \A c \in 1..Len(calls) : Len(calls[c].exclude) <= 20
    /\ Len(merged_polygons) > 20 =>
          exclude_polygons =
              [i \in 1..20 |-> ExpectedExclusion(merged_polygons[i].coordinates)]

C7_Witness ==
    /\ Len(merged_polygons) > 20
    /\ Len(calls) = 2
    /\ Len(calls[2].exclude) = 20

\* features of a layer whose rule evaluates true, as problematic polygons
ViolatingOf(features, avoid, layer_type) ==
    LET kept == SelectSeq(features,
                    LAMBDA feature :
                        Truthy(violates_filters(FeatureMetrics(feature, layer_type),
                                                avoid, layer_type)))
    IN [i \in 1..Len(kept) |->
          [id |-> kept[i].segment_id,
           type |-> layer_type,
           coordinates |-> kept[i].geometry.coordinates[1],
           reason |-> ""]]

\* C8: the problematic polygons are exactly the fetched polygons whose
\* condition type's rule evaluates true for the request's avoidance profile.
C8_OnlyViolatingCollected ==
    problematic_polygons =
        Flatten([k \in 1..Len(LayerOrder) |->
                    ViolatingOf(all_layers[LayerOrder[k]], request.profile.avoid,
                                LayerOrder[k])])

\* C9: with the noise threshold unset, the noise check does not report a
\* violation, whatever the noise level.
C9_UnsetNoiseThreshold ==
    (vf_ret # None /\ vf_args.layer_type = "noise"
       /\ vf_args.avoid.noise_above_db = None) =>
        ~Truthy(vf_ret[1])

C9_Witness ==
    /\ vf_ret # None
    /\ vf_args.layer_type = "noise"
    /\ vf_args.avoid.noise_above_db = None
    /\ vf_args.metrics.noise_db = 80

\* the rule table of the violation detector
RuleTable(metrics, avoid, layer_type) ==
    CASE layer_type = "noise" ->
            avoid.noise_above_db # None /\ metrics.noise_db > avoid.noise_above_db[1]
      [] layer_type = "crowd" ->
            avoid.crowd_level_above # None
            /\ metrics.crowd_level > avoid.crowd_level_above[1]
      [] layer_type = "puddles" -> avoid.puddles /\ metrics.puddles
      [] layer_type = "light" ->
            avoid.light_below_lux # None /\ metrics.light_lux < avoid.light_below_lux[1]
      [] OTHER -> FALSE

\* C10: _violates_filters reports a violation exactly when the rule table
\* does (a threshold of 0 counts as set).
C10_RuleTable ==
    vf_ret # None =>
        (Truthy(vf_ret[1]) <=> RuleTable(vf_args.metrics, vf_args.avoid,
                                         vf_args.layer_type))

\* every point of ring r1 lies strictly to one side of every point of ring r2
Apart(r1, r2) ==
    \/ \A i \in 1..Len(r1), j \in 1..Len(r2) : r1[i][1] < r2[j][1]
    \/ \A i \in 1..Len(r1), j \in 1..Len(r2) : r1[i][1] > r2[j][1]
    \/ \A i \in 1..Len(r1), j \in 1..Len(r2) : r1[i][2] < r2[j][2]
    \/ \A i \in 1..Len(r1), j \in 1..Len(r2) : r1[i][2] > r2[j][2]

\* positions of the problem list whose ring is a polygon
Usable_Ring(coords) == Len(coords) >= 3

\* position i of the list is a polygon that meets no other polygon of the list
AloneInList(polygons, i) ==
    /\ Usable_Ring(polygons[i].coordinates)
    /\ \A j \in 1..Len(polygons) :
          (j # i /\ Usable_Ring(polygons[j].coordinates))
              => Apart(polygons[i].coordinates, polygons[j].coordinates)

\* C11: the merger emits a polygon that meets no other polygon of its input
\* exactly as it was given (same id, type, ring and reason), and a list of
\* exactly one polygon comes back unchanged.
C11_SingletonUnchanged ==
    (pc = "merge" /\ fn_ret # None) =>
        /\ Len(fn_args) = 1 => fn_ret[1] = fn_args
        /\ \A i \in 1..Len(fn_args) :
              AloneInList(fn_args, i)
                  => \E k \in 1..Len(fn_ret[1]) : fn_ret[1][k] = fn_args[i]
        /\ \A k \in 1..Len(fn_ret[1]) :
              fn_ret[1][k].type # "merged"
                  => \E i \in 1..Len(fn_args) : fn_ret[1][k] = fn_args[i]

\* a list of three: the open-ring polygon p4 stands alone next to a merged pair
C11_Witness ==
    /\ pc = "merge" /\ fn_ret # None
    /\ Len(fn_args) = 3
    /\ \E i \in 1..3 : /\ AloneInList(fn_args, i)
                       /\ fn_args[i].id = "p4"
                       /\ \E k \in 1..Len(fn_ret[1]) : fn_ret[1][k] = fn_args[i]
    /\ \E k \in 1..Len(fn_ret[1]) : fn_ret[1][k].type = "merged"

\* C12: for valid metrics and priority weights within 0..1 both calm-score
\* functions answer within 0..10, and every route of a response carries a
\* calm score within 0..10.
C12_CalmScoreBounds ==
    /\ (pc = "score" /\ fn_ret # None) =>
          /\ fn_ret[1].fixed >= 0 /\ fn_ret[1].fixed <= 100
          /\ fn_ret[1].weighted >= 0 /\ fn_ret[1].weighted <= 1000
          /\ fn_ret[1].route >= 0 /\ fn_ret[1].route <= 100
    /\ (Returned /\ result.value # None) =>
          \A i \in 1..Len(Response.routes) :
              /\ Response.routes[i].calm_score >= 0
              /\ Response.routes[i].calm_score <= 100

\* a quiet short route with full weights: the weighted sum is above 10 and
\* the answer is 10
C12_Witness ==
    /\ pc = "score" /\ fn_ret # None
    /\ fn_args.metrics.avg_noise_db = 0
    /\ fn_args.priorities = [noise |-> 10, crowd |-> 10, distance |-> 10]
    /\ fn_ret[1].weighted = 1000
    /\ fn_ret[1].fixed = 100

\* C13: closing a non-empty ring appends its first point exactly when first
\* and last point differ; the closed ring has first = last; closing it again
\* changes nothing.
C13_CloseRingIdempotent ==
    pc = "ring" =>
        /\ Len(fn_ret) >= 1 =>
              /\ fn_ret[1] = IF fn_args[1] = fn_args[Len(fn_args)] THEN fn_args
                             ELSE fn_args \o <<fn_args[1]>>
              /\ fn_ret[1][1] = fn_ret[1][Len(fn_ret[1])]
        /\ Len(fn_ret) = 2 => fn_ret[2] = fn_ret[1]

\* an open ring of three points was closed to four and closed again
C13_Witness ==
    /\ pc = "ring"
    /\ Len(fn_ret) = 2
    /\ Len(fn_args) = 3
    /\ fn_args[1] # fn_args[3]
    /\ Len(fn_ret[2]) = 4

\* all points of the ring lie strictly beyond one side of the box
\* <<lat_min, lon_min, lat_max, lon_max>> (box in tenths of the ring's unit)
StrictlyOutside(coords, b) ==
    \/ \A i \in 1..Len(coords) : 10 * coords[i][1] < b[2]
    \/ \A i \in 1..Len(coords) : 10 * coords[i][1] > b[4]
    \/ \A i \in 1..Len(coords) : 10 * coords[i][2] < b[1]
    \/ \A i \in 1..Len(coords) : 10 * coords[i][2] > b[3]

AllInside(coords, b) ==
    \A i \in 1..Len(coords) :
        /\ b[2] <= 10 * coords[i][1] /\ 10 * coords[i][1] <= b[4]
        /\ b[1] <= 10 * coords[i][2] /\ 10 * coords[i][2] <= b[3]

\* C14: the ring/box test answers false when all points of the ring lie
\* strictly outside the box on one side of one axis, true when all points lie
\* inside the box, and in general true exactly when no side of the box
\* separates the ring from it (touching counts as intersecting).
C14_IntersectsBbox ==
    (pc = "box" /\ fn_ret # None) =>
        /\ StrictlyOutside(fn_args.coords, fn_args.bbox) => fn_ret[1] = FALSE
        /\ AllInside(fn_args.coords, fn_args.bbox) => fn_ret[1] = TRUE
        /\ fn_ret[1] = ~StrictlyOutside(fn_args.coords, fn_args.bbox)

\* a ring that only touches the right side of the box from outside
C14_Witness ==
    /\ pc = "box" /\ fn_ret # None
    /\ fn_ret[1] = TRUE
    /\ \A i \in 1..Len(fn_args.coords) : 10 * fn_args.coords[i][1] >= fn_args.bbox[4]
    /\ \E i \in 1..Len(fn_args.coords) : 10 * fn_args.coords[i][1] > fn_args.bbox[4]
    /\ \E i \in 1..Len(fn_args.coords) : 10 * fn_args.coords[i][1] = fn_args.bbox[4]

\* the <<lon, lat>> points of all line strings of a provider result
RoutePoints(route) ==
    {<<route.result[i].maneuvers[m][s].nums[2 * k - 1],
       route.result[i].maneuvers[m][s].nums[2 * k]>> :
        <<i, m, s, k>> \in
            {t \in (1..MaxBboxItems + 1) \X (1..1) \X (1..1) \X (1..2) :
                /\ t[1] <= Len(route.result)
                /\ route.result[t[1]].maneuvers[t[2]][t[3]].tag = "LINESTRING"
                /\ 2 * t[4] <= Len(route.result[t[1]].maneuvers[t[2]][t[3]].nums)}}

Least(S) == CHOOSE x \in S : \A y \in S : x <= y
Greatest(S) == CHOOSE x \in S : \A y \in S : x >= y

C16_LayerCap ==
    (pc = "layers" /\ fn_ret # None) =>
        \A layer_type \in LayerTypes : Len(fn_ret[1][layer_type]) <= 200

\* more than 200 noise polygons in the box and more than 200 centres found:
\* both lists are cut to 200
C16_Witness ==
    /\ pc = "layers" /\ fn_ret # None
    /\ USE_REAL_DATA
    /\ fn_args.lookup.kind = "ok" /\ Len(fn_args.lookup.centers) > 200
    /\ Len(find_polygons_in_bbox("noise", fn_args.bbox)) > 200
    /\ Len(fn_ret[1]["noise"]) = 200
    /\ Len(fn_ret[1]["light"]) = 200
    /\ fn_ret[1]["light"][1].segment_id = "light_tc_c1"

\* the live lookup raised, failed or found no point
LookupGaveNothing(lookup) ==
    lookup.kind \in {"raise", "fail"} \/ lookup.centers = <<>>

\* ids of the polygons of a file that are not separated from the box
IdsInBox(polygons, b) ==
    LET hit == SelectSeq(polygons, LAMBDA p : ~StrictlyOutside(p.coordinates, b))
    IN [i \in 1..Len(hit) |-> hit[i].id]

\* C17: when the live lookup for the light type raises, fails or finds no
\* point, the light layer consists of the polygons of the static light file
\* that intersect the bounding box (at most 200 of them), as the static path
\* gives them for the other types.
C17_LightFallback ==
    (pc = "layers" /\ fn_ret # None /\ LookupGaveNothing(fn_args.lookup)) =>
        /\ [i \in 1..Len(fn_ret[1]["light"]) |-> fn_ret[1]["light"][i].segment_id]
             = Take(IdsInBox(fn_args.files["light"], fn_args.bbox), 200)
        /\ [i \in 1..Len(fn_ret[1]["noise"]) |-> fn_ret[1]["noise"][i].segment_id]
             = Take(IdsInBox(fn_args.files["noise"], fn_args.bbox), 200)

\* the live lookup raised and the light layer holds the static polygon
C17_Witness ==
    /\ pc = "layers" /\ fn_ret # None
    /\ USE_REAL_DATA /\ loader_gis_service
    /\ fn_args.lookup.kind = "raise"
    /\ fn_args.files = DatasetMixed
    /\ Len(fn_ret[1]["light"]) = 1
    /\ fn_ret[1]["light"][1].segment_id = "dark"

\* C18: one request calls the routing provider at most twice, each call being
\* one attempt; the first call carries no exclusions; the second call is made
\* only after the first answered with a route and the problem search and the
\* merge gave at least one polygon; a first call without an answer ends the
\* request without a layer fetch and without a second call.
C18_AtMostTwoCalls ==
    /\ Len(calls) <= 2
    /\ Len(attempts) = Len(calls)
    /\ layer_fetches <= 1
    /\ Len(calls) >= 1 => calls[1].exclude = <<>>
    /\ Len(calls) = 2 =>
          /\ attempts[1] = "ok"
          /\ base_route.nonempty
          /\ layer_fetches = 1
          /\ problematic_polygons # <<>>
          /\ merged_polygons # <<>>
          /\ pc = "done"
    /\ (Len(calls) >= 1 /\ ~base_route.nonempty) =>
          /\ pc = "done"
          /\ Len(calls) = 1
          /\ layer_fetches = 0
    /\ (Len(calls) >= 1 /\ attempts[1] # "ok") => ~base_route.nonempty

\* both calls were made and the second one timed out
C18_Witness ==
    /\ pc = "done"
    /\ attempts = <<"ok", "timeout">>
    /\ Len(calls) = 2
    /\ calls[2].exclude # <<>>

\* the provider result that was converted after the second call
Converted == IF calm_route.nonempty THEN calm_route ELSE base_route

\* C19: a converted provider result with n >= 1 alternatives gives exactly
\* min(n, 3) routes, the i-th route built from the i-th alternative (its id,
\* or route_<i> when it has none, and its geometry), whatever number of
\* alternatives the request asked for.
C19_ConvertedRoutes ==
    (Returned /\ Len(calls) = 2 /\ Len(Converted.result) >= 1) =>
        /\ Len(Response.routes) = Min(Len(Converted.result), 3)
        /\ \A i \in 1..Len(Response.routes) :
              /\ Response.routes[i].id =
                    IF Converted.result[i].id = <<>>
                    THEN "route_" \o ToString(i)
                    ELSE Converted.result[i].id[1]
              /\ Response.routes[i].geometry.coordinates = ItemGeometries(Converted)[i]

\* a request for two alternatives answered with more than three: three routes
C19_Witness ==
    /\ Returned /\ Len(calls) = 2
    /\ request.alternatives = 2
    /\ Len(Converted.result) > 3
    /\ Len(Response.routes) = 3
    /\ Response.routes[1].id # Response.routes[2].id

\* what get_route answered to the i-th call of the request
Answer(i) == IF i = 1 THEN base_route ELSE calm_route

\* C20: every get_route call is one HTTP attempt and returns; after a
\* timeout, a network error or a non-200 status it returns the empty result,
\* and the route builder goes on as without a route: the fallback route after
\* the first call, the converted base route after the second.
C20_GetRouteNeverRaises ==
    /\ Len(attempts) = Len(calls)
    /\ \A i \in 1..Len(attempts) :
          attempts[i] \in {"timeout", "error", "status"} =>
              /\ Answer(i) = EmptyDict
              /\ pc = "done"
              /\ Len(attempts) = i
              /\ result.kind = "return" /\ result.value # None
              /\ http.kind = "return"
              /\ i = 1 => Response = create_fallback_route(request)
              /\ i = 2 => RouteGeometries(Response) =
                              RouteGeometries(convert_route_to_response(
                                  base_route, request, [k \in 1..RouteCap |-> <<600, 10>>]))

\* the first call was answered with a non-200 status and its error body
C20_Witness ==
    /\ attempts = <<"status">>
    /\ pc = "done"
    /\ base_route = EmptyDict
    /\ result.kind = "return"
    /\ Len(Response.routes) = 1
    /\ Response.routes[1].explanations[1].reason = "2GIS API unavailable"

\* the search task i carries a filter token that is not a known filter
Rejected(i) == tasks[i].kind = "search" /\ FirstUnknown(tasks[i].req.filters) # 0

\* C21: a place search with an unknown filter token ends with HTTP 400 naming
\* the token; it sends nothing to the places provider and writes nothing to
\* the storage.
C21_UnknownFilterRejected ==
    pc = "places" =>
        /\ \A i \in 1..Len(tasks) :
              Rejected(i) =>
                  /\ tasks[i].pc = "done"
                  /\ tasks[i].http.kind = "HTTPException"
                  /\ tasks[i].http.status_code = 400
                  /\ tasks[i].http.body[1].filter \notin AccessibilityFilter
        /\ Len(places_calls) =
              Cardinality({i \in 1..Len(tasks) : tasks[i].kind = "search" /\ ~Rejected(i)})
        /\ (\A i \in 1..Len(tasks) : Rejected(i)) => storage = StorageAtStart


\* C22: whatever layer queries and calm-route builds run, and in whatever
\* order their steps interleave, no step changes a loaded dataset: each
\* polygon keeps its ring and its metrics.
C22_DatasetsUnchanged == [][polygons_by_layer' = polygons_by_layer]_vars

\* a loaded polygon with an open ring was served closed by a layer query and
\* by a route build that went on to merge and build exclusions
C22_Witness ==
    /\ pc = "done"
    /\ exclude_polygons # <<>>
    /\ fn_ret # None
    /\ \E layer_type \in LayerTypes :
        \E i \in 1..Len(polygons_by_layer[layer_type]) :
            LET poly == polygons_by_layer[layer_type][i]
            IN /\ poly.coordinates # CloseRing(poly.coordinates)
               /\ \E j \in 1..Len(all_layers[layer_type]) :
                     /\ all_layers[layer_type][j].segment_id = poly.id
                     /\ all_layers[layer_type][j].geometry.coordinates[1]
                          = CloseRing(poly.coordinates)
               /\ \E j \in 1..Len(fn_ret[1][layer_type]) :
                     fn_ret[1][layer_type][j].segment_id = poly.id


\* the polygons the merger could build a geometry for, and their clusters
Sp == ShapelyPolygons(fn_args)
Clusters == Groups(Sp)
Members(a) == {Clusters[a][k] : k \in 1..Len(Clusters[a])}
Earlier(a) == UNION {Members(c) : c \in 1..(a - 1)}
Meet(i, j) == ShapelyIntersects(Sp[i].polygon, Sp[j].polygon)
Merged == pc = "merge" /\ fn_ret # None /\ Sp # <<>>

\* C23: a cluster is its seed, the first polygon in input order not yet in a
\* cluster, and exactly the polygons not yet in a cluster that intersect the
\* seed itself. A polygon that intersects only another member of the
\* cluster is left out of it and is found in a later cluster.
C23_SeedOnlyClusters ==
    Merged =>
        /\ Len(fn_ret[1]) = Len(Clusters)
        /\ \A a \in 1..Len(Clusters) :
            LET seed == Clusters[a][1]
            IN /\ \A j \in (1..Len(Sp)) \ Earlier(a) : seed <= j
               /\ Members(a) =
                    {seed} \cup {j \in (1..Len(Sp)) \ Earlier(a) : Meet(seed, j)}
               /\ \A k \in 1..(Len(Clusters[a]) - 1) :
                     k > 1 => Clusters[a][k] < Clusters[a][k + 1]
               /\ \A j \in (1..Len(Sp)) \ Earlier(a) :
                     (/\ ~Meet(seed, j)
                      /\ \E m \in Members(a) : m # seed /\ Meet(m, j))
                     => \E c \in (a + 1)..Len(Clusters) : j \in Members(c)
               /\ (Len(Clusters[a]) > 1 /\ fn_ret[1][a].type = "merged")
                     => fn_ret[1][a].reason
                          = "merged " \o ToString(Len(Clusters[a])) \o " polygons"

\* p1, p2, p3 in a chain: p3 intersects the member p2 but not the seed p1 and
\* is emitted on its own
C23_Witness ==
    /\ Merged
    /\ Len(fn_args) = 3
    /\ fn_args[1].id = "p1" /\ fn_args[2].id = "p2" /\ fn_args[3].id = "p3"
    /\ Len(fn_ret[1]) = 2
    /\ fn_ret[1][1].type = "merged"
    /\ fn_ret[1][2] = fn_args[3]


\* the geometry objects of cluster a, seed first
ClusterPolys(a) == [k \in 1..Len(Clusters[a]) |-> Sp[Clusters[a][k]].polygon]

\* the union of cluster a is one polygon: every member is linked to the seed
\* through members that share more than a point
OnePiece(a) ==
    \A k \in 1..Len(Clusters[a]) :
        k \in JoinedClosure(ClusterPolys(a), {1})

Buildable(poly) == WellFormed(poly.coordinates) /\ ~PolygonRaises(poly.coordinates)

\* C25: a polygon with fewer than 3 points or with malformed points is not in
\* the merger's output, and the output is the one the merger gives for the
\* input list without such polygons.
C25_MalformedSkipped ==
    (pc = "merge" /\ fn_ret # None) =>
        /\ \A k \in 1..Len(fn_ret[1]) : Buildable(fn_ret[1][k])
        /\ fn_ret[1] = merge_intersecting_polygons(SelectSeq(fn_args, Buildable))


\* C28: the clusters partition the polygons with a usable ring: each is in
\* exactly one cluster, each cluster gives one output polygon, so there are
\* as many outputs as clusters and at most as many as usable inputs; an
\* empty input gives an empty output.
C28_ClustersPartition ==
    (pc = "merge" /\ fn_ret # None) =>
        /\ \A i \in 1..Len(Sp) :
              Cardinality({a \in 1..Len(Clusters) : i \in Members(a)}) = 1
        /\ \A a \in 1..Len(Clusters) :
              /\ Clusters[a] # <<>>
              /\ Cardinality(Members(a)) = Len(Clusters[a])
              /\ Members(a) \subseteq 1..Len(Sp)
        /\ Len(fn_ret[1]) = Len(Clusters)
        /\ Len(fn_ret[1]) <= Len(SelectSeq(fn_args, Buildable))
        /\ fn_args = <<>> => fn_ret[1] = <<>>


\* the orders in which a list of n polygons can be handed over
Orders(n) ==
    {f \in [1..n -> 1..n] : \A i, j \in 1..n : i # j => f[i] # f[j]}

\* the clusters the merger forms for fn_args in the order f, as sets of
\* positions in fn_args
ClustersIn(f) ==
    LET sp == ShapelyPolygons([k \in 1..Len(fn_args) |-> fn_args[f[k]]])
        groups == Groups(sp)
    IN {{f[sp[groups[a][k]].index + 1] : k \in 1..Len(groups[a])} :
            a \in 1..Len(groups)}

OutputsIn(f) ==
    Len(merge_intersecting_polygons([k \in 1..Len(fn_args) |-> fn_args[f[k]]]))

AllBuildable == \A i \in 1..Len(fn_args) : Buildable(fn_args[i])

SameInEveryOrder ==
    \A f \in Orders(Len(fn_args)) :
        /\ OutputsIn(f) = Len(fn_ret[1])
        /\ ClustersIn(f) = {Members(a) : a \in 1..Len(Clusters)}

\* whenever two polygons intersect a third, they intersect each other
DirectlyLinked ==
    \A i, j, k \in 1..Len(Sp) : (Meet(i, j) /\ Meet(j, k)) => Meet(i, k)

\* C29 as stated: for a list of well-formed polygons, every order of the list
\* gives the same number of output polygons and the same clusters.
C29_OrderIndependent ==
    (pc = "merge" /\ fn_ret # None /\ AllBuildable) => SameInEveryOrder

\* C29 amended: the same, for lists in which polygons linked through a third
\* polygon also intersect directly.
C29_OrderIndependentWhenLinked ==
    (pc = "merge" /\ fn_ret # None /\ AllBuildable /\ DirectlyLinked)
        => SameInEveryOrder

\* three polygons, two of them in one cluster, all links direct
C29_Witness ==
    /\ pc = "merge" /\ fn_ret # None /\ AllBuildable /\ DirectlyLinked
    /\ Len(fn_args) = 3
    /\ fn_args[1] # fn_args[2] /\ fn_args[2] # fn_args[3] /\ fn_args[1] # fn_args[3]
    /\ Len(fn_ret[1]) = 2
    /\ \E a \in 1..Len(fn_ret[1]) : fn_ret[1][a].type = "merged"


\* C26: the weighted-scoring path returns min(3, alternatives) routes, never
\* more than the request asks for, in order of falling calm score, each with
\* an id of its own.
C26_CalmRoutes ==
    (pc = "routes" /\ fn_ret # None) =>
        LET routes == fn_ret[1]
        IN /\ Len(routes) <= fn_args.request.alternatives
           /\ Len(routes) = Min(3, fn_args.request.alternatives)
           /\ \A k \in 1..(Len(routes) - 1) :
                 routes[k].calm_score >= routes[k + 1].calm_score
           /\ \A j, k \in 1..Len(routes) : j # k => routes[j].id # routes[k].id

\* two of three routes are asked for and the best one was generated last
C26_Witness ==
    /\ pc = "routes" /\ fn_ret # None
    /\ fn_args.request.alternatives = 2
    /\ Len(fn_ret[1]) = 2
    /\ fn_ret[1][1].id = "route_3"
    /\ fn_ret[1][1].calm_score > fn_ret[1][2].calm_score


\* add_review tasks for the place that have run to their end
Posted(place_id) ==
    {i \in 1..Len(tasks) :
        /\ tasks[i].kind = "add_review"
        /\ tasks[i].pc = "done"
        /\ tasks[i].req.place_id = place_id}

\* how many of the ratings submitted for the place are a rating v > 0 of
\* filter f
RECURSIVE Submitted(_, _, _)
Submitted(S, f, v) ==
    IF S = {} THEN 0
    ELSE LET i == CHOOSE j \in S : TRUE
             ratings == tasks[i].req.accessibility_ratings
         IN Cardinality({k \in 1..Len(ratings) :
                            /\ ratings[k].filter_type = f
                            /\ ratings[k].rating = v
                            /\ v > 0})
            + Submitted(S \ {i}, f, v)

Occurrences(seq, v) == Cardinality({k \in 1..Len(seq) : seq[k] = v})

RatingValues == {0, 30, 35, 40, 45}

====
